---- MODULE Spec2Model ----
(***************************************************************************)
(* A model of the MilkLua runtime (a gopher-lua derivative).               *)
(*                                                                         *)
(* Part I   - the coroutine library (coroutlib: Create, Wrap, Resume,      *)
(*            Yield) and the thread state it reads and writes              *)
(*            (G.CurrentThread, LState.Parent, LState.Dead,                *)
(*            LState.wrapped, the call-frame stack).                       *)
(*                                                                         *)
(* The library functions are translated from src/yamllib.go (the file      *)
(* holds the coroutine library after the YAML one).  The interpreter loop, *)
(* threadRun, switchToParentThread and LState.Status are not among the     *)
(* sources; they follow section 4.6 of the specification.                  *)
(***************************************************************************)
EXTENDS Integers, Sequences, FiniteSets, TLC

\* ------------------------------------------------------------------ bounds
MaxThreads == 2      \* coroutines that may be created besides the main thread
MaxSteps == 7        \* instructions the threads may execute, all together

\* --------------------------------------------------------------- constants
MainThread == 0                   \* G.MainThread
NoThread == 0 - 1                 \* a nil *LState (LState.Parent of a thread nobody resumed)
NoFrame == "nil"                  \* a nil *callFrame
MultRet == "MultRet"              \* callFrame.NRet: all results
NoErr == "noerr"                  \* no error is being unwound

Threads == 0 .. MaxThreads
Fns == {"f"}                      \* script closures handed to Create / Wrap
Values == {"v1", "v2"}            \* values a body yields or returns
NArgsChoices == {0, 1}            \* numbers of arguments handed to a resume

MsgRunning == "can not resume a running thread"
MsgDead == "can not resume a dead thread"
MsgYield == "can not yield from outside of a coroutine"
MsgUser == "error"                \* the value of a script-level Error(obj)

VARIABLES
    nthreads,       \* number of threads NewThread has made: they are 1 .. nthreads
    CurrentThread,  \* L.G.CurrentThread
    Dead,           \* LState.Dead
    Parent,         \* LState.Parent
    wrapped,        \* LState.wrapped
    stack,          \* LState.stack: the call frames of a thread
    currentFrame,   \* LState.currentFrame: 0 is nil, else an index of stack
    pendingResume,  \* the thread whose threadRun a thread's coResume is waiting in
    ret,            \* what the last host call that returned handed back, and to whom
    raised,         \* the error value being unwound in CurrentThread, or NoErr
    halted,         \* the main thread's top frame was left: the interpreter stopped
    nres,           \* per thread, the number of Resume calls that handed control to it
    nyld,           \* per thread, the number of times its body handed control back
    lastOp          \* the operation the last step performed

covars == <<nthreads, CurrentThread, Dead, Parent, wrapped, stack, currentFrame,
            pendingResume, ret, raised, halted, nres, nyld, lastOp>>

\* Part II - one thread's registers, call frames, closures and upvalue cells.
VARIABLES
    reg,            \* the register stack: a value per absolute index
    frames,         \* the call-frame stack, the current frame last
    cells,          \* the upvalue cells ever made: open on a slot, or closed on a value
    uvcache,        \* the list of the open cells, by descending stack index
    closures,       \* the closures ever built: the cells each is bound to
    vmSteps,        \* the number of instructions executed
    vmOp            \* the instruction the last step executed

vmvars == <<reg, frames, cells, uvcache, closures, vmSteps, vmOp>>

\* Part III - the call-frame stack of one thread under protected calls.
VARIABLES
    pstack,         \* the call frames, the current frame last
    perr,           \* the error value being unwound, or NoErr
    pret,           \* what the last pcall / xpcall that returned handed back
    pHalted,        \* an error left the top frame of the thread
    pSteps,         \* the number of calls, returns and errors executed
    pOp             \* the operation the last step performed

pcvars == <<pstack, perr, pret, pHalted, pSteps, pOp>>

\* Part IV - tables and their metatables.
VARIABLES
    tbl,            \* per table, its metatable and its fields
    tret,           \* the value or the error of the last operation, and its loop count
    tSteps,         \* the number of operations executed
    tOp             \* the operation the last step performed

tblvars == <<tbl, tret, tSteps, tOp>>

\* Part V - one table and a traversal of it with Next.
VARIABLES
    narray,         \* the array part: the values of the keys 1 .. Len(narray)
    nkeys,          \* the keys of the hash part, in the order they were added
    ndict,          \* the hash part: a value per key of nkeys
    ncursor,        \* the key the script passes to the next call of Next
    nvisited,       \* the (key, value) pairs Next has returned in this traversal
    nphase,         \* "build", "traverse" or "done"
    nSets           \* the number of assignments made to the table

nextvars == <<narray, nkeys, ndict, ncursor, nvisited, nphase, nSets>>

\* Part VI - the sizes of one thread's call-frame stack and register stack.
VARIABLES
    lslots,         \* the registers a frame of the running function uses, 0 before it is loaded
    ldepth,         \* the number of call frames
    lregTop,        \* the number of registers in use
    lregCap,        \* the number of registers allocated
    lerr            \* the stack error being unwound, or NoErr

limvars == <<lslots, ldepth, lregTop, lregCap, lerr>>

\* Part VII - the registers of one numeric for loop.
VARIABLES
    fRA,            \* R(A): the internal index of the loop
    fLimit,         \* R(A+1): the limit
    fStep,          \* R(A+2): the step
    fVar,           \* R(A+3): the loop variable the body sees
    fInit,          \* the initial value the statement was given
    fRan,           \* the body has run at least once
    fPhase          \* "idle", "loop" (the next instruction is FORLOOP), "done" or "error"

forvars == <<fRA, fLimit, fStep, fVar, fInit, fRan, fPhase>>

\* Part VIII - the tables of one JSON round trip.
VARIABLES
    jheap,          \* the tables: per table its array part and its string keys
    jnext,          \* the next table NewTable makes
    jpool,          \* tablePool: the tables put back, the last one put last
    jt,             \* the table the script encodes
    jdata,          \* the JSON text, as its tokens
    jres,           \* the value Decode returned
    jphase          \* "idle", "built", "encoded" or "decoded"

jsonvars == <<jheap, jnext, jpool, jt, jdata, jres, jphase>>

\* Part IX - one call of Pack and one of Unpack.
VARIABLES
    pkArgs,         \* the values Pack was called with
    pkTbl,          \* the array part of the table Pack returned
    pkOut,          \* the values Unpack returned
    pkPhase         \* "idle", "packed" or "unpacked"

packvars == <<pkArgs, pkTbl, pkOut, pkPhase>>

\* Part X - one number, its text and the number read back from the text.
VARIABLES
    tnNum,          \* the number ToString was called with
    tnStr,          \* the string ToString returned, character by character
    tnRes,          \* what ToNumber returned for the string
    tnPhase         \* "idle", "string" or "number"

tonumvars == <<tnNum, tnStr, tnRes, tnPhase>>

\* Part XI - one call of string.find: its arguments and what it returned.
VARIABLES
    fndStr,           \* argument 1, the subject, byte by byte
    fndPattern,       \* argument 2, the pattern, byte by byte
    fndInit,          \* argument 3, the start position (1 when absent)
    fndPlain,         \* argument 4, the plain flag (FALSE when absent)
    fndOut,           \* what the call produced
    fndPhase          \* "idle" or "done"

findvars == <<fndStr, fndPattern, fndInit, fndPlain, fndOut, fndPhase>>

\* Part XII - one call of string.gsub.
VARIABLES
    gsStr,          \* argument 1, the subject, byte by byte
    gsPat,          \* argument 2, the pattern
    gsRepl,         \* argument 3: a string, a table or a function
    gsMds,          \* the matches pm.Find returned: spans <<start, end>>
    gsRets,         \* what the function returned for the matches called so far
    gsInfo,         \* infoList: the replaceInfo records collected so far
    gsOut,          \* the string the call pushed
    gsPhase         \* "idle", "calling" (inside strGsubFunc) or "done"

gsubvars == <<gsStr, gsPat, gsRepl, gsMds, gsRets, gsInfo, gsOut, gsPhase>>

\* Part XIII - one instruction word.
VARIABLES
    inst,           \* the uint32 instruction word
    opLast          \* the last function applied to the word and its arguments

opvars == <<inst, opLast>>

\* Part XIV - a table, the value tbllib.Clone returned for it and the writes
\* made through either of the two.
VARIABLES
    clHeap,         \* the tables of the heap, by reference
    clTbl,          \* the reference the script holds to the table it cloned
    clNewtbl,       \* the reference Clone returned, 0 before the call
    clLast          \* the last write: through which value, key and value

clonevars == <<clHeap, clTbl, clNewtbl, clLast>>

\* Part XV - a source text and the tokens the scanner returned for it.
VARIABLES
    lxInput,        \* the runes of the source text
    lxPos,          \* how many runes the reader has delivered
    lxTokens,       \* the tokens returned so far: type, text, start offset
    lxPhase         \* "idle", "scanning", "eof" or "error"

lexvars == <<lxInput, lxPos, lxTokens, lxPhase>>

\* Part XVI: Require.  The _LOADED table of the registry, the activations of
\* loRequire that wait in the call of a module function (innermost last), the
\* error being unwound, how often the module function of each name was
\* called, the value the first completed load of each name returned, and the
\* last operation.
VARIABLES rqLoaded, rqStack, rqRaised, rqCalls, rqFirst, rqLast

reqvars == <<rqLoaded, rqStack, rqRaised, rqCalls, rqFirst, rqLast>>

\* Part XVII: GMatch.  The strMatchData the iterator works on (str, pos,
\* matches), what the last call of the iterator returned, and whether an
\* iteration is open.
VARIABLES gmStr, gmPos, gmMatches, gmOut, gmPhase

gmvars == <<gmStr, gmPos, gmMatches, gmOut, gmPhase>>

\* Part XVIII: the default time unit.  The package variables
\* defaultTimeUnit, requestTimeout (httplib) and wsDialTimeout (wslib), in
\* milliseconds, and the last library call with what it returned.
VARIABLES defaultTimeUnit, requestTimeout, wsDialTimeout, tmLast

timevars == <<defaultTimeUnit, requestTimeout, wsDialTimeout, tmLast>>

vars == <<covars, vmvars, pcvars, tblvars, nextvars, limvars, forvars,
          jsonvars, packvars, tonumvars, findvars, gsubvars, opvars, clonevars,
          lexvars, reqvars, gmvars, timevars>>

\* What a step of one part of the model leaves alone.
notCoroutine == <<vmvars, pcvars, tblvars, nextvars, limvars, forvars,
                  jsonvars, packvars, tonumvars, findvars, gsubvars, opvars,
                  clonevars, lexvars, reqvars, gmvars, timevars>>
notVM == <<covars, pcvars, tblvars, nextvars, limvars, forvars, jsonvars,
           packvars, tonumvars, findvars, gsubvars, opvars, clonevars, lexvars,
           reqvars, gmvars, timevars>>
notPCall == <<covars, vmvars, tblvars, nextvars, limvars, forvars, jsonvars,
              packvars, tonumvars, findvars, gsubvars, opvars, clonevars,
              lexvars, reqvars, gmvars, timevars>>
notTbl == <<covars, vmvars, pcvars, nextvars, limvars, forvars, jsonvars,
            packvars, tonumvars, findvars, gsubvars, opvars, clonevars,
            lexvars, reqvars, gmvars, timevars>>
notNext == <<covars, vmvars, pcvars, tblvars, limvars, forvars, jsonvars,
             packvars, tonumvars, findvars, gsubvars, opvars, clonevars,
             lexvars, reqvars, gmvars, timevars>>
notLim == <<covars, vmvars, pcvars, tblvars, nextvars, forvars, jsonvars,
            packvars, tonumvars, findvars, gsubvars, opvars, clonevars,
            lexvars, reqvars, gmvars, timevars>>
notFor == <<covars, vmvars, pcvars, tblvars, nextvars, limvars, jsonvars,
            packvars, tonumvars, findvars, gsubvars, opvars, clonevars,
            lexvars, reqvars, gmvars, timevars>>
notJson == <<covars, vmvars, pcvars, tblvars, nextvars, limvars, forvars,
             packvars, tonumvars, findvars, gsubvars, opvars, clonevars,
             lexvars, reqvars, gmvars, timevars>>
notPack == <<covars, vmvars, pcvars, tblvars, nextvars, limvars, forvars,
             jsonvars, tonumvars, findvars, gsubvars, opvars, clonevars,
             lexvars, reqvars, gmvars, timevars>>
notToNum == <<covars, vmvars, pcvars, tblvars, nextvars, limvars, forvars,
              jsonvars, packvars, findvars, gsubvars, opvars, clonevars,
              lexvars, reqvars, gmvars, timevars>>
notFind == <<covars, vmvars, pcvars, tblvars, nextvars, limvars, forvars,
             jsonvars, packvars, tonumvars, gsubvars, opvars, clonevars,
             lexvars, reqvars, gmvars, timevars>>
notGsub == <<covars, vmvars, pcvars, tblvars, nextvars, limvars, forvars,
             jsonvars, packvars, tonumvars, findvars, opvars, clonevars,
             lexvars, reqvars, gmvars, timevars>>
notOp == <<covars, vmvars, pcvars, tblvars, nextvars, limvars, forvars,
           jsonvars, packvars, tonumvars, findvars, gsubvars, clonevars,
           lexvars, reqvars, gmvars, timevars>>
notClone == <<covars, vmvars, pcvars, tblvars, nextvars, limvars, forvars,
              jsonvars, packvars, tonumvars, findvars, gsubvars, opvars,
              lexvars, reqvars, gmvars, timevars>>
notLex == <<covars, vmvars, pcvars, tblvars, nextvars, limvars, forvars,
            jsonvars, packvars, tonumvars, findvars, gsubvars, opvars,
            clonevars, reqvars, gmvars, timevars>>
notReq == <<covars, vmvars, pcvars, tblvars, nextvars, limvars, forvars,
            jsonvars, packvars, tonumvars, findvars, gsubvars, opvars,
            clonevars, lexvars, gmvars, timevars>>
notGm == <<covars, vmvars, pcvars, tblvars, nextvars, limvars, forvars,
           jsonvars, packvars, tonumvars, findvars, gsubvars, opvars,
           clonevars, lexvars, reqvars, timevars>>
notTime == <<covars, vmvars, pcvars, tblvars, nextvars, limvars, forvars,
             jsonvars, packvars, tonumvars, findvars, gsubvars, opvars,
             clonevars, lexvars, reqvars, gmvars>>

Created == 0 .. nthreads

\* The results of a host call: to the thread `to`, (ok, val) or the error val.
Result(to, how, ok, val) == [to |-> to, how |-> how, ok |-> ok, val |-> val]
NoRet == Result(NoThread, "none", FALSE, "none")
\* An operation: its name, the thread that performed it, the thread it is
\* about and its argument.
Op(op, by, th, arg) == [op |-> op, by |-> by, th |-> th, arg |-> arg]
NoOp == Op("none", NoThread, NoThread, "none")

\* The frame coCreate pushes for fn.
callFrame(fn) ==
    [Fn |-> fn, Pc |-> 0, Base |-> 0, LocalBase |-> 1, ReturnBase |-> 0,
     NArgs |-> 0, NRet |-> MultRet, Parent |-> NoFrame, TailCall |-> 0]

\* LState.isStarted
isStarted(th) == currentFrame[th] # 0

\* LState.Status, by section 3 of the specification: dead; running (executing);
\* normal (has resumed another coroutine and waits for it); else suspended.
Status(th) ==
    IF Dead[th] THEN "dead"
    ELSE IF CurrentThread = th THEN "running"
    ELSE IF \E u \in Created : ~Dead[u] /\ Parent[u] = th THEN "normal"
    ELSE "suspended"

\* The program counter of the frame a thread executes.
PcOf(th) == IF isStarted(th) THEN stack[th][currentFrame[th]].Pc ELSE 0

\* The stack after thread c fetched one more instruction (cf.Pc++ of mainLoop).
Fetch(stk, c) == [stk EXCEPT ![c][currentFrame[c]].Pc = @ + 1]

\* The number of instructions the threads of S have executed.
RECURSIVE Executed(_)
Executed(S) ==
    IF S = {} THEN 0
    ELSE LET t == CHOOSE x \in S : TRUE IN PcOf(t) + Executed(S \ {t})

\* Thread c is the one executing script code and may execute one more instruction.
CanRun(c) ==
    /\ ~halted
    /\ raised = NoErr
    /\ c = CurrentThread
    /\ ~Dead[c]
    /\ isStarted(c)
    /\ pendingResume[c] = NoThread
    /\ Executed(Threads) < MaxSteps

InitCo ==
    /\ nthreads = 0
    /\ CurrentThread = MainThread
    /\ Dead = [t \in Threads |-> FALSE]
    /\ Parent = [t \in Threads |-> NoThread]
    /\ wrapped = [t \in Threads |-> FALSE]
    /\ stack = [t \in Threads |-> IF t = MainThread THEN <<callFrame("main")>> ELSE <<>>]
    /\ currentFrame = [t \in Threads |-> IF t = MainThread THEN 1 ELSE 0]
    /\ pendingResume = [t \in Threads |-> NoThread]
    /\ ret = NoRet
    /\ raised = NoErr
    /\ halted = FALSE
    /\ nres = [t \in Threads |-> 0]
    /\ nyld = [t \in Threads |-> 0]
    /\ lastOp = NoOp

\* ------------------------------------------------------- coroutlib.Create
\* coCreate: the stack of the new thread holds one frame, for fn.  The thread
\* NewThread returns is not dead, not wrapped, has no parent and no current
\* frame, which is the state Init gives the identifiers not yet handed out.
coCreateStarted(stk, newthread, fn) ==
    [stk EXCEPT ![newthread] = Append(@, [callFrame(fn) EXCEPT !.Pc = 1])]

coCreate(stk, newthread, fn) ==
    [stk EXCEPT ![newthread] = Append(@, callFrame(fn))]

Create(fn) ==
    LET L == CurrentThread
        newthread == nthreads + 1
    IN  /\ CanRun(L)
        /\ nthreads < MaxThreads
        /\ nthreads' = newthread
        /\ stack' = coCreate(Fetch(stack, L), newthread, fn)
        /\ ret' = Result(L, "return", TRUE, "thread")
        /\ lastOp' = Op("Create", L, newthread, fn)
        /\ UNCHANGED notCoroutine
        /\ UNCHANGED <<CurrentThread, Dead, Parent, wrapped, currentFrame,
                       pendingResume, raised, halted, nres, nyld>>

\* coWrap: coCreate, then the thread is marked wrapped and hidden in a closure.
coWrap(w, newthread) == [w EXCEPT ![newthread] = TRUE]

Wrap(fn) ==
    LET L == CurrentThread
        newthread == nthreads + 1
    IN  /\ CanRun(L)
        /\ nthreads < MaxThreads
        /\ nthreads' = newthread
        /\ stack' = coCreate(Fetch(stack, L), newthread, fn)
        /\ wrapped' = coWrap(wrapped, newthread)
        /\ ret' = Result(L, "return", TRUE, "function")
        /\ lastOp' = Op("Wrap", L, newthread, fn)
        /\ UNCHANGED notCoroutine
        /\ UNCHANGED <<CurrentThread, Dead, Parent, currentFrame,
                       pendingResume, raised, halted, nres, nyld>>

\* ------------------------------------------------------- coroutlib.Resume
\* coResume refuses th: an error raised in L when th is wrapped, else the
\* results (false, msg).
coResumeRefuse(L, th, msg, stk) ==
    /\ IF wrapped[th]
         THEN /\ raised' = msg
              /\ ret' = ret
         ELSE /\ raised' = raised
              /\ ret' = Result(L, "return", FALSE, msg)
    /\ stack' = stk
    /\ UNCHANGED <<CurrentThread, Parent, currentFrame, pendingResume, nres>>

\* coResume hands control to th: th.Parent = L, CurrentThread = th, the entry
\* frame becomes the current frame of a thread that has not started, and
\* threadRun(th) runs th until it yields, returns or fails.
coResumeRun(L, th, nargs, stk) ==
    /\ Parent' = [Parent EXCEPT ![th] = L]
    /\ CurrentThread' = th
    /\ IF ~isStarted(th)
         THEN /\ currentFrame' = [currentFrame EXCEPT ![th] = Len(stack[th])]
              /\ stack' = [stk EXCEPT ![th][Len(stack[th])].NArgs = nargs]
         ELSE /\ currentFrame' = currentFrame
              /\ stack' = stk
    /\ pendingResume' = [pendingResume EXCEPT ![L] = th]
    /\ nres' = [nres EXCEPT ![th] = @ + 1]
    /\ UNCHANGED <<ret, raised>>

\* coResume without its test of th.Dead.
coResumeNoDeadTest(L, th, nargs, stk) ==
    IF CurrentThread = th THEN coResumeRefuse(L, th, MsgRunning, stk)
    ELSE coResumeRun(L, th, nargs, stk)

\* coResume without th.Parent = L.
coResumeNoParent(L, th, nargs, stk) ==
    IF CurrentThread = th THEN coResumeRefuse(L, th, MsgRunning, stk)
    ELSE IF Dead[th] THEN coResumeRefuse(L, th, MsgDead, stk)
    ELSE /\ Parent' = Parent
         /\ CurrentThread' = th
         /\ IF ~isStarted(th)
              THEN /\ currentFrame' = [currentFrame EXCEPT ![th] = Len(stack[th])]
                   /\ stack' = [stk EXCEPT ![th][Len(stack[th])].NArgs = nargs]
              ELSE /\ currentFrame' = currentFrame
                   /\ stack' = stk
         /\ pendingResume' = [pendingResume EXCEPT ![L] = th]
         /\ nres' = [nres EXCEPT ![th] = @ + 1]
         /\ UNCHANGED <<ret, raised>>

coResume(L, th, nargs, stk) ==
    IF CurrentThread = th THEN coResumeRefuse(L, th, MsgRunning, stk)
    ELSE IF Dead[th] THEN coResumeRefuse(L, th, MsgDead, stk)
    ELSE coResumeRun(L, th, nargs, stk)

\* A Resume(th, args) call of the running script (also the call of the function
\* Wrap returned: wrapaux inserts the thread and calls coResume).
Resume(th, nargs) ==
    LET L == CurrentThread IN
    /\ CanRun(L)
    /\ th \in 1 .. nthreads
    /\ coResume(L, th, nargs, Fetch(stack, L))
    /\ lastOp' = Op("Resume", L, th, "none")
    /\ UNCHANGED notCoroutine
    /\ UNCHANGED <<nthreads, Dead, wrapped, halted, nyld>>

\* A thread that is resumed while its own coResume is still waiting in
\* threadRun continues where it stands: in that host call, which runs again.
ReResume ==
    LET L == CurrentThread IN
    /\ ~halted /\ raised = NoErr /\ ~Dead[L]
    /\ pendingResume[L] # NoThread
    /\ nres[pendingResume[L]] < MaxSteps
    /\ coResume(L, pendingResume[L], 0, stack)
    /\ lastOp' = Op("ReResume", L, pendingResume[L], "none")
    /\ UNCHANGED notCoroutine
    /\ UNCHANGED <<nthreads, Dead, wrapped, halted, nyld>>

\* -------------------------------------------------------- coroutlib.Yield
\* coYield returns the negative sentinel: the host-function convention for
\* "yield", which the interpreter turns into the switch to the parent.
coYieldNoSentinel(L) == 0

coYield(L) == 0 - 1

\* switchToParentThread (section 4.6, Yield / return / error): the parent
\* becomes the current thread, the parent pointer is cleared, the thread is
\* killed when it returned or failed, and the parent's coResume returns.
switchToParentThread(L, kill, stk) ==
    LET p == Parent[L] IN
    /\ CurrentThread' = p
    /\ Parent' = [Parent EXCEPT ![L] = NoThread]
    /\ Dead' = IF kill THEN [Dead EXCEPT ![L] = TRUE] ELSE Dead
    /\ pendingResume' = [pendingResume EXCEPT ![p] = NoThread]
    /\ nyld' = [nyld EXCEPT ![L] = @ + 1]
    /\ stack' = stk
    /\ UNCHANGED <<nthreads, wrapped, currentFrame, halted, nres>>

Yield(v) ==
    LET L == CurrentThread IN
    /\ CanRun(L)
    /\ lastOp' = Op("Yield", L, Parent[L], v)
    /\ UNCHANGED notCoroutine
    /\ IF coYield(L) >= 0
         THEN \* an ordinary host call that returned no value
              /\ stack' = Fetch(stack, L)
              /\ ret' = Result(L, "return", TRUE, "none")
              /\ UNCHANGED <<nthreads, CurrentThread, Dead, Parent, wrapped, currentFrame,
                             pendingResume, raised, halted, nres, nyld>>
         ELSE IF Parent[L] = NoThread
         THEN \* yield from outside of a coroutine
              /\ raised' = MsgYield
              /\ stack' = Fetch(stack, L)
              /\ UNCHANGED <<nthreads, CurrentThread, Dead, Parent, wrapped, currentFrame,
                             pendingResume, ret, halted, nres, nyld>>
         ELSE /\ switchToParentThread(L, FALSE, Fetch(stack, L))
              /\ ret' = Result(Parent[L], "return", TRUE, v)
              /\ UNCHANGED raised

\* ------------------------------------------------ return from the top frame
\* RETURN in the entry frame of a coroutine: the thread dies and its results
\* go to the resumer as (true, results).  In the main thread the chunk ends.
Return(v) ==
    LET L == CurrentThread IN
    /\ CanRun(L)
    /\ lastOp' = Op("Return", L, Parent[L], v)
    /\ UNCHANGED notCoroutine
    /\ IF Parent[L] = NoThread
         THEN /\ halted' = TRUE
              /\ stack' = Fetch(stack, L)
              /\ UNCHANGED <<nthreads, CurrentThread, Dead, Parent, wrapped, currentFrame,
                             pendingResume, ret, raised, nres, nyld>>
         ELSE /\ switchToParentThread(L, TRUE, Fetch(stack, L))
              /\ ret' = Result(Parent[L], "return", TRUE, v)
              /\ UNCHANGED raised

\* ------------------------------------------------------------------ errors
\* baseError: the script raises an error value.
RaiseError ==
    LET L == CurrentThread IN
    /\ CanRun(L)
    /\ raised' = MsgUser
    /\ stack' = Fetch(stack, L)
    /\ lastOp' = Op("Error", L, NoThread, MsgUser)
    /\ UNCHANGED notCoroutine
    /\ UNCHANGED <<nthreads, CurrentThread, Dead, Parent, wrapped, currentFrame,
                   pendingResume, ret, halted, nres, nyld>>

\* basePCall: a protected call of the current thread catches the error that is
\* being unwound and returns (false, error value).
Catch ==
    LET L == CurrentThread IN
    /\ ~halted
    /\ raised # NoErr
    /\ ~Dead[L]
    /\ raised' = NoErr
    /\ ret' = Result(L, "return", FALSE, raised)
    /\ lastOp' = Op("Catch", L, NoThread, raised)
    /\ UNCHANGED notCoroutine
    /\ UNCHANGED <<nthreads, CurrentThread, Dead, Parent, wrapped, stack, currentFrame,
                   pendingResume, halted, nres, nyld>>

\* The thread whose coResume waits for th to hand control back.
ResumerOf(th) ==
    IF \E u \in Created : pendingResume[u] = th
      THEN CHOOSE u \in Created : pendingResume[u] = th
      ELSE NoThread

\* The error leaves the top frame of the current thread (no protected call of
\* the thread is open).  A coroutine dies and its resumer observes
\* (false, error), or the error again when the coroutine is wrapped; in the
\* main thread the interpreter stops.
Unwind ==
    LET L == CurrentThread IN
    /\ ~halted
    /\ raised # NoErr
    /\ ~Dead[L]
    /\ lastOp' = Op("Unwind", L, ResumerOf(L), raised)
    /\ UNCHANGED notCoroutine
    /\ IF Parent[L] = NoThread
         THEN /\ halted' = TRUE
              /\ UNCHANGED <<nthreads, CurrentThread, Dead, Parent, wrapped, stack,
                             currentFrame, pendingResume, ret, raised, nres, nyld>>
         ELSE /\ switchToParentThread(L, TRUE, stack)
              /\ IF wrapped[L]
                   THEN /\ UNCHANGED <<raised, ret>>
                   ELSE /\ raised' = NoErr
                        /\ ret' = Result(Parent[L], "return", FALSE, raised)

(***************************************************************************)
(* Part II - call frames, closures and upvalue cells of one thread         *)
(* (sections 4.3 and 4.4 of the specification).  The instructions are      *)
(* those of src/opcode.go; the interpreter that executes them is not among *)
(* the sources, so each instruction follows the specification.             *)
(***************************************************************************)
MaxDepth == 3        \* call frames a thread may hold
MaxVMSteps == 6      \* instructions executed

Locals == {0, 1}                  \* the local registers of a frame: R(0), R(1)
RegValues == {"x", "y"}           \* values an instruction stores in a local
FrameSize == Cardinality(Locals) + 1   \* the slot of the callee and its locals
RegSize == MaxDepth * FrameSize
NoIndex == 0 - 1

\* The upvalue descriptors of the prototypes a CLOSURE may instantiate: the
\* pseudo-instructions MOVE (B names a local) and GETUPVAL (B names an upvalue
\* of the enclosing closure).
Capture(kind, B) == [kind |-> kind, B |-> B]
Protos == { <<Capture("MOVE", 0)>>,
            <<Capture("MOVE", 0), Capture("MOVE", 1)>>,
            <<Capture("GETUPVAL", 1)>> }

\* The main chunk is closure 0; it has no upvalue.
Upvalues(fn) == IF fn = 0 THEN <<>> ELSE closures[fn]

vmFrame(fn, base, tailcall) ==
    [Fn |-> fn, Base |-> base, LocalBase |-> base + 1, TailCall |-> tailcall]

VmOp(op, idx) == [op |-> op, idx |-> idx]

InitVM ==
    /\ reg = [i \in 0 .. RegSize - 1 |-> "nil"]
    /\ frames = <<vmFrame(0, 0, 0)>>
    /\ cells = <<>>
    /\ uvcache = <<>>
    /\ closures = <<>>
    /\ vmSteps = 0
    /\ vmOp = VmOp("none", NoIndex)

\* The frame that executes.
Cf == frames[Len(frames)]

\* The thread can execute one more instruction.
VmRuns == Len(frames) > 0 /\ vmSteps < MaxVMSteps

\* The open cells that point to stack index idx.
OpenAt(cs, idx) == {c \in 1 .. Len(cs) : cs[c].open /\ cs[c].index = idx}

\* The open list with cell id put before the first cell of a lower index.
RECURSIVE InsertByIndex(_, _, _)
InsertByIndex(cs, list, id) ==
    IF list = <<>> \/ cs[Head(list)].index < cs[id].index
      THEN <<id>> \o list
      ELSE <<Head(list)>> \o InsertByIndex(cs, Tail(list), id)

\* A search that finds nothing: every capture makes a new cell.
findUpvalueAlwaysNew(cs, list, idx) ==
    LET id == Len(cs) + 1
        ncs == Append(cs, [open |-> TRUE, index |-> idx, value |-> "nil"])
    IN  [cells |-> ncs, uvcache |-> InsertByIndex(ncs, list, id), id |-> id]

\* findUpvalue (section 4.4, MOVE): the open cell that points to idx when
\* there is one, else a new open cell on that slot, linked into the list.
findUpvalue(cs, list, idx) ==
    IF \E i \in 1 .. Len(list) : cs[list[i]].index = idx
      THEN [cells |-> cs, uvcache |-> list,
            id |-> list[CHOOSE i \in 1 .. Len(list) : cs[list[i]].index = idx]]
      ELSE LET id == Len(cs) + 1
               ncs == Append(cs, [open |-> TRUE, index |-> idx, value |-> "nil"])
           IN  [cells |-> ncs, uvcache |-> InsertByIndex(ncs, list, id), id |-> id]

\* A close that leaves the cell on the slot idx itself open.
RECURSIVE closeUpvaluesAbove(_, _, _, _)
closeUpvaluesAbove(cs, list, r, idx) ==
    IF list = <<>> \/ cs[Head(list)].index <= idx
      THEN [cells |-> cs, uvcache |-> list]
      ELSE closeUpvaluesAbove(
               [cs EXCEPT ![Head(list)] =
                   [open |-> FALSE, index |-> @.index, value |-> r[@.index]]],
               Tail(list), r, idx)

\* closeUpvalues (section 4.4, CLOSE; section 9): walk the list from its head
\* while the head's index is >= idx; each such cell becomes closed on the
\* value its slot holds and is unlinked.
RECURSIVE closeUpvalues(_, _, _, _)
closeUpvalues(cs, list, r, idx) ==
    IF list = <<>> \/ cs[Head(list)].index < idx
      THEN [cells |-> cs, uvcache |-> list]
      ELSE closeUpvalues(
               [cs EXCEPT ![Head(list)] =
                   [open |-> FALSE, index |-> @.index, value |-> r[@.index]]],
               Tail(list), r, idx)

\* The cells a new closure is bound to, one per descriptor.
RECURSIVE Bind(_, _, _, _)
Bind(descs, cs, list, got) ==
    IF descs = <<>> THEN [cells |-> cs, uvcache |-> list, upvalues |-> got]
    ELSE LET d == Head(descs) IN
         IF d.kind = "MOVE"
           THEN LET f == findUpvalue(cs, list, Cf.LocalBase + d.B)
                IN  Bind(Tail(descs), f.cells, f.uvcache, Append(got, f.id))
           ELSE Bind(Tail(descs), cs, list, Append(got, Upvalues(Cf.Fn)[d.B]))

\* The registers with the locals of the frame at base cleared for a callee.
EnterFrame(r, base) ==
    [i \in 0 .. RegSize - 1 |->
        IF i = base THEN "function"
        ELSE IF i > base /\ i < base + FrameSize THEN "nil" ELSE r[i]]

\* MOVE / LOADK: R(A) := v
OP_MOVE(A, v) ==
    /\ VmRuns
    /\ reg' = [reg EXCEPT ![Cf.LocalBase + A] = v]
    /\ vmSteps' = vmSteps + 1
    /\ vmOp' = VmOp("MOVE", NoIndex)
    /\ UNCHANGED <<frames, cells, uvcache, closures>>
    /\ UNCHANGED notVM

\* SETUPVAL: U[B] := v, through the cell: into the slot of an open cell, into
\* the cell itself when it is closed.
OP_SETUPVAL(B, v) ==
    /\ VmRuns
    /\ B \in 1 .. Len(Upvalues(Cf.Fn))
    /\ LET c == Upvalues(Cf.Fn)[B] IN
       IF cells[c].open
         THEN /\ reg' = [reg EXCEPT ![cells[c].index] = v]
              /\ cells' = cells
         ELSE /\ cells' = [cells EXCEPT ![c].value = v]
              /\ reg' = reg
    /\ vmSteps' = vmSteps + 1
    /\ vmOp' = VmOp("SETUPVAL", NoIndex)
    /\ UNCHANGED <<frames, uvcache, closures>>
    /\ UNCHANGED notVM

\* CLOSURE: a closure of a prototype with the upvalue descriptors descs.
OP_CLOSURE(descs) ==
    /\ VmRuns
    /\ \A i \in 1 .. Len(descs) :
          descs[i].kind = "GETUPVAL" => descs[i].B \in 1 .. Len(Upvalues(Cf.Fn))
    /\ LET b == Bind(descs, cells, uvcache, <<>>) IN
       /\ cells' = b.cells
       /\ uvcache' = b.uvcache
       /\ closures' = Append(closures, b.upvalues)
    /\ vmSteps' = vmSteps + 1
    /\ vmOp' = VmOp("CLOSURE", NoIndex)
    /\ UNCHANGED <<reg, frames>>
    /\ UNCHANGED notVM

\* CALL of the script closure fn: a new frame above the caller's locals.
OP_CALL(fn) ==
    /\ VmRuns
    /\ fn \in 1 .. Len(closures)
    /\ Len(frames) < MaxDepth
    /\ LET base == Cf.LocalBase + Cardinality(Locals) IN
       /\ frames' = Append(frames, vmFrame(fn, base, 0))
       /\ reg' = EnterFrame(reg, base)
    /\ vmSteps' = vmSteps + 1
    /\ vmOp' = VmOp("CALL", NoIndex)
    /\ UNCHANGED <<cells, uvcache, closures>>
    /\ UNCHANGED notVM

\* A TAILCALL that pushes a frame as CALL does.
TailCallPushes(fn) ==
    /\ VmRuns
    /\ fn \in 1 .. Len(closures)
    /\ Len(frames) < MaxDepth
    /\ LET base == Cf.LocalBase + Cardinality(Locals) IN
       /\ frames' = Append(frames, vmFrame(fn, base, Cf.TailCall + 1))
       /\ reg' = EnterFrame(reg, base)
    /\ vmSteps' = vmSteps + 1
    /\ vmOp' = VmOp("TAILCALL", Cf.Base)
    /\ UNCHANGED <<cells, uvcache, closures>>
    /\ UNCHANGED notVM

\* TAILCALL of the script closure fn (section 4.3): the caller's open
\* upvalues at or above its base are closed and the callee's frame takes the
\* place, and the base, of the caller's.
OP_TAILCALL(fn) ==
    /\ VmRuns
    /\ fn \in 1 .. Len(closures)
    /\ LET cl == closeUpvalues(cells, uvcache, reg, Cf.Base) IN
       /\ cells' = cl.cells
       /\ uvcache' = cl.uvcache
    /\ frames' = [frames EXCEPT ![Len(frames)] = vmFrame(fn, Cf.Base, Cf.TailCall + 1)]
    /\ reg' = EnterFrame(reg, Cf.Base)
    /\ vmSteps' = vmSteps + 1
    /\ vmOp' = VmOp("TAILCALL", Cf.Base)
    /\ UNCHANGED closures
    /\ UNCHANGED notVM

\* A RETURN that pops the frame and leaves its cells open.
ReturnKeepsOpen ==
    /\ VmRuns
    /\ frames' = SubSeq(frames, 1, Len(frames) - 1)
    /\ vmSteps' = vmSteps + 1
    /\ vmOp' = VmOp("RETURN", Cf.Base)
    /\ UNCHANGED <<reg, cells, uvcache, closures>>
    /\ UNCHANGED notVM

\* RETURN: the open upvalues of the frame are closed and the frame is popped.
OP_RETURN ==
    /\ VmRuns
    /\ LET cl == closeUpvalues(cells, uvcache, reg, Cf.Base) IN
       /\ cells' = cl.cells
       /\ uvcache' = cl.uvcache
    /\ frames' = SubSeq(frames, 1, Len(frames) - 1)
    /\ vmSteps' = vmSteps + 1
    /\ vmOp' = VmOp("RETURN", Cf.Base)
    /\ UNCHANGED <<reg, closures>>
    /\ UNCHANGED notVM

\* CLOSE A: close the open upvalues at or above R(A).
OP_CLOSE(A) ==
    /\ VmRuns
    /\ LET cl == closeUpvalues(cells, uvcache, reg, Cf.LocalBase + A) IN
       /\ cells' = cl.cells
       /\ uvcache' = cl.uvcache
    /\ vmSteps' = vmSteps + 1
    /\ vmOp' = VmOp("CLOSE", Cf.LocalBase + A)
    /\ UNCHANGED <<reg, frames, closures>>
    /\ UNCHANGED notVM

\* An error unwinds to the protected call made by frame k (section 7): the
\* frames above it are discarded and their upvalues closed.
ErrorUnwind(k) ==
    /\ VmRuns
    /\ k \in 1 .. Len(frames) - 1
    /\ LET cl == closeUpvalues(cells, uvcache, reg, frames[k + 1].Base) IN
       /\ cells' = cl.cells
       /\ uvcache' = cl.uvcache
    /\ frames' = SubSeq(frames, 1, k)
    /\ vmSteps' = vmSteps + 1
    /\ vmOp' = VmOp("ERROR", frames[k + 1].Base)
    /\ UNCHANGED <<reg, closures>>
    /\ UNCHANGED notVM

VMNext ==
    \/ \E A \in Locals, v \in RegValues : OP_MOVE(A, v)
    \/ \E B \in 1 .. 2, v \in RegValues : OP_SETUPVAL(B, v)
    \/ \E descs \in Protos : OP_CLOSURE(descs)
    \/ \E fn \in 1 .. MaxVMSteps : OP_CALL(fn)
    \/ \E fn \in 1 .. MaxVMSteps : OP_TAILCALL(fn)
    \/ OP_RETURN
    \/ \E A \in Locals : OP_CLOSE(A)
    \/ \E k \in 1 .. MaxDepth : ErrorUnwind(k)

CoNext ==
    \/ \E fn \in Fns : Create(fn)
    \/ \E fn \in Fns : Wrap(fn)
    \/ \E th \in Threads, nargs \in NArgsChoices : Resume(th, nargs)
    \/ ReResume
    \/ \E v \in Values : Yield(v)
    \/ \E v \in Values : Return(v)
    \/ RaiseError
    \/ Catch
    \/ Unwind

(***************************************************************************)
(* Part III - protected calls (section 7 of the specification).            *)
(* basePCall and baseXPCall are translated from src/unnamed/part_003;      *)
(* LState.PCall, which they call, is not among the sources and follows     *)
(* section 7: the error unwinds to the protection point, the frames above  *)
(* it are discarded.                                                       *)
(***************************************************************************)
MaxPDepth == 4
MaxPSteps == 6

ArgTypes == {"function", "nil", "table"}  \* LValue.Type().String() of pcall's first argument
ErrValues == {"e1", "e2"}                 \* error objects a script raises
CallResults == {"r1"}                     \* what a function returns
NoValue == "none"

\* A call frame: fn is "main", "lua" (a script function), "pcall", "xpcall"
\* or "errfunc" (the handler of an xpcall); a pcall / xpcall frame holds the
\* depth of the stack when it was called.
pFrame(fn, depth) == [fn |-> fn, depth |-> depth]
PRet(ok, val) == [ok |-> ok, val |-> val]
POp(op, frame, err) == [op |-> op, frame |-> frame, err |-> err]
Pop(stk) == SubSeq(stk, 1, Len(stk) - 1)
IsProtection(f) == f.fn \in {"pcall", "xpcall"}

InitPCall ==
    /\ pstack = <<pFrame("main", 0)>>
    /\ perr = NoErr
    /\ pret = PRet(TRUE, NoValue)
    /\ pHalted = FALSE
    /\ pSteps = 0
    /\ pOp = POp("none", pFrame("main", 0), NoErr)

PRuns == ~pHalted /\ perr = NoErr /\ pSteps < MaxPSteps

\* The index of the innermost pcall / xpcall frame, 0 when there is none.
ProtectionPoint(stk) ==
    IF \E i \in DOMAIN stk : IsProtection(stk[i])
      THEN CHOOSE i \in DOMAIN stk :
               IsProtection(stk[i]) /\ \A j \in DOMAIN stk : IsProtection(stk[j]) => j <= i
      ELSE 0

\* LState.PCall on an error: the frame stack is cut back to the frame that
\* made the protected call.
PCallRecoverKeepsFrames(stk, sp) == stk

PCallRecover(stk, sp) == SubSeq(stk, 1, sp)

\* A script function calls a script function.
PCallee ==
    /\ PRuns
    /\ Len(pstack) < MaxPDepth
    /\ pstack' = Append(pstack, pFrame("lua", Len(pstack)))
    /\ pSteps' = pSteps + 1
    /\ pOp' = POp("call", pFrame("lua", Len(pstack)), NoErr)
    /\ UNCHANGED <<perr, pret, pHalted>>
    /\ UNCHANGED notPCall

\* basePCall(v, ...): a value that cannot be called gives (false, message)
\* without a call; a function is called under LState.PCall.
basePCall(v) ==
    /\ PRuns
    /\ pSteps' = pSteps + 1
    /\ UNCHANGED <<perr, pHalted>>
    /\ UNCHANGED notPCall
    /\ IF v # "function"
         THEN /\ pret' = PRet(FALSE, "attempt to call a " \o v \o " value")
              /\ pOp' = POp("pcall", pFrame("pcall", Len(pstack)), NoErr)
              /\ UNCHANGED pstack
         ELSE /\ Len(pstack) + 2 <= MaxPDepth
              /\ pstack' = pstack \o <<pFrame("pcall", Len(pstack)),
                                       pFrame("lua", Len(pstack) + 1)>>
              /\ pOp' = POp("enter", pFrame("pcall", Len(pstack)), NoErr)
              /\ UNCHANGED pret

\* baseXPCall(fn, errfunc): CheckFunction raises when fn is not a function;
\* else fn is called under LState.PCall with the handler.
baseXPCall(v) ==
    /\ PRuns
    /\ pSteps' = pSteps + 1
    /\ UNCHANGED <<pret, pHalted>>
    /\ UNCHANGED notPCall
    /\ IF v # "function"
         THEN /\ perr' = "bad argument #1 to xpcall"
              /\ pOp' = POp("error", pstack[Len(pstack)], "bad argument #1 to xpcall")
              /\ UNCHANGED pstack
         ELSE /\ Len(pstack) + 2 <= MaxPDepth
              /\ pstack' = pstack \o <<pFrame("xpcall", Len(pstack)),
                                       pFrame("lua", Len(pstack) + 1)>>
              /\ pOp' = POp("enter", pFrame("xpcall", Len(pstack)), NoErr)
              /\ UNCHANGED perr

\* The current function returns r.  When it is the function a pcall / xpcall
\* called, LState.PCall returns nil and the pcall returns (true, r).  When it
\* is the handler of an xpcall, r is the error value the xpcall returns.
PReturn(r) ==
    LET n == Len(pstack) IN
    /\ PRuns
    /\ n > 1
    /\ pSteps' = pSteps + 1
    /\ UNCHANGED <<perr, pHalted>>
    /\ UNCHANGED notPCall
    /\ IF pstack[n].fn = "errfunc"
         THEN LET k == ProtectionPoint(pstack) IN
              /\ pstack' = Pop(PCallRecover(pstack, k))
              /\ pret' = PRet(FALSE, r)
              /\ pOp' = POp("pcall", pstack[k], pstack[n].depth)
         ELSE IF IsProtection(pstack[n - 1])
           THEN /\ pstack' = Pop(Pop(pstack))
                /\ pret' = PRet(TRUE, r)
                /\ pOp' = POp("pcall", pstack[n - 1], NoErr)
           ELSE /\ pstack' = Pop(pstack)
                /\ pOp' = POp("return", pstack[n], NoErr)
                /\ UNCHANGED pret

\* baseError: the current function raises e.
PError(e) ==
    /\ PRuns
    /\ perr' = e
    /\ pSteps' = pSteps + 1
    /\ pOp' = POp("error", pstack[Len(pstack)], e)
    /\ UNCHANGED <<pstack, pret, pHalted>>
    /\ UNCHANGED notPCall

\* LState.PCall catches the error.  Without a handler the frames above the
\* protection point are discarded and basePCall returns (false, error
\* value).  With a handler that is not yet running, the handler is called
\* with the error value on top of the frames of the failed call; an error
\* of the handler itself is the error the xpcall returns.
PRecover ==
    LET k == ProtectionPoint(pstack)
        n == Len(pstack) IN
    /\ ~pHalted
    /\ perr # NoErr
    /\ k > 0
    /\ perr' = NoErr
    /\ UNCHANGED <<pHalted, pSteps>>
    /\ UNCHANGED notPCall
    /\ IF pstack[k].fn = "xpcall" /\ ~ \E i \in k .. n : pstack[i].fn = "errfunc"
         THEN /\ pstack' = Append(pstack, pFrame("errfunc", perr))
              /\ pOp' = POp("handler", pstack[k], perr)
              /\ UNCHANGED pret
         ELSE /\ pstack' = Pop(PCallRecover(pstack, k))
              /\ pret' = PRet(FALSE, perr)
              /\ pOp' = POp("pcall", pstack[k], perr)

\* No protected call is open: the error leaves the top frame of the thread.
PPropagate ==
    /\ ~pHalted
    /\ perr # NoErr
    /\ ProtectionPoint(pstack) = 0
    /\ pHalted' = TRUE
    /\ pstack' = <<>>
    /\ pOp' = POp("uncaught", pstack[1], perr)
    /\ UNCHANGED <<perr, pret, pSteps>>
    /\ UNCHANGED notPCall

PCallNext ==
    \/ PCallee
    \/ \E v \in ArgTypes : basePCall(v)
    \/ \E v \in ArgTypes : baseXPCall(v)
    \/ \E r \in CallResults : PReturn(r)
    \/ \E e \in ErrValues : PError(e)
    \/ PRecover
    \/ PPropagate

(***************************************************************************)
(* Part IV - metatables and the index operation (section 5 of the          *)
(* specification).  baseSetMetatable and baseGetMetatable are translated   *)
(* from src/unnamed/part_003, debugSetMetatable and debugGetMetatable from *)
(* src/debuglib.go.  LState.GetMetatable and the index operation of the    *)
(* interpreter are not among the sources and follow section 5.             *)
(***************************************************************************)
MaxTblSteps == 4
MaxTableGetLoop == 100

LNil == "nil"
Tables == {"t1", "t2"}
TblKeys == {"__metatable", "__index", "k"}
MsgNilObject == "cannot set metatable to a nil object."
MsgProtected == "cannot change a protected metatable"
MsgGetLoop == "too many recursions in gettable"

\* The values a script stores under a key.
TblValues(key) ==
    CASE key = "__metatable" -> {LNil, "locked"}
      [] key = "__index" -> {LNil, "function"} \cup Tables
      [] OTHER -> {LNil, "v"}

TRet(val, err, loops) == [val |-> val, err |-> err, loops |-> loops]
TOp(op, lib, obj, arg) == [op |-> op, lib |-> lib, obj |-> obj, arg |-> arg]

InitTbl ==
    /\ tbl = [t \in Tables |-> [Metatable |-> LNil, fields |-> [key \in TblKeys |-> LNil]]]
    /\ tret = TRet(LNil, NoErr, 0)
    /\ tSteps = 0
    /\ tOp = TOp("none", "none", LNil, LNil)

TblRuns == tSteps < MaxTblSteps

RawGetString(tb, obj, key) == tb[obj].fields[key]
RawSetString(tb, obj, key, val) == [tb EXCEPT ![obj].fields[key] = val]

\* LState.metatable(obj, rawget): with rawget the actual metatable, else the
\* __metatable field of the metatable when it has one.
metatable(tb, obj, rawget) ==
    LET mt == tb[obj].Metatable IN
    IF rawget \/ mt = LNil THEN mt
    ELSE IF RawGetString(tb, mt, "__metatable") = LNil THEN mt
    ELSE RawGetString(tb, mt, "__metatable")

\* The end of both SetMetatable functions: a metatable whose __index is not a
\* table gets itself as __index, then it becomes the metatable of obj.
setMetatableTail(tb, obj, mt) ==
    LET tb1 == IF mt \in Tables /\ RawGetString(tb, mt, "__index") \notin Tables
                 THEN RawSetString(tb, mt, "__index", mt)
                 ELSE tb
    IN [tbl |-> [tb1 EXCEPT ![obj].Metatable = mt], err |-> NoErr]

baseSetMetatable(tb, obj, mt) ==
    IF obj = LNil THEN [tbl |-> tb, err |-> MsgNilObject]
    ELSE IF /\ metatable(tb, obj, TRUE) # LNil
            /\ RawGetString(tb, metatable(tb, obj, TRUE), "__metatable") # LNil
      THEN [tbl |-> tb, err |-> MsgProtected]
      ELSE setMetatableTail(tb, obj, mt)

debugSetMetatable(tb, obj, mt) ==
    IF obj = LNil THEN [tbl |-> tb, err |-> NoErr]
    ELSE setMetatableTail(tb, obj, mt)

baseGetMetatable(tb, obj) == metatable(tb, obj, FALSE)

debugGetMetatable(tb, obj) == metatable(tb, obj, FALSE)

\* The index operation obj[key] is a loop of at most limit lookups.  One
\* lookup: a raw lookup; on nil the __index of the metatable is consulted, a
\* table restarts the lookup there, a function is called.
getFieldStep(tb, key, x) ==
    IF x.done THEN x
    ELSE IF RawGetString(tb, x.curobj, key) # LNil
      THEN [x EXCEPT !.done = TRUE, !.val = RawGetString(tb, x.curobj, key)]
    ELSE LET mt == metatable(tb, x.curobj, TRUE)
             metaindex == IF mt = LNil THEN LNil ELSE RawGetString(tb, mt, "__index")
         IN IF metaindex = LNil THEN [x EXCEPT !.done = TRUE]
            ELSE IF metaindex = "function" THEN [x EXCEPT !.done = TRUE, !.val = "called"]
            ELSE [x EXCEPT !.curobj = metaindex, !.i = x.i + 1]

\* n lookups, one after the other.
RECURSIVE getFieldIterate(_, _, _, _)
getFieldIterate(tb, key, n, x) ==
    IF n = 0 THEN x
    ELSE IF n = 1 THEN getFieldStep(tb, key, x)
    ELSE LET h == getFieldIterate(tb, key, n \div 2, x)
         IN IF h.done THEN h ELSE getFieldIterate(tb, key, n - (n \div 2), h)

\* The loop, and the error that follows it when no lookup returned.
getFieldLoop(tb, obj, key, limit) ==
    LET x == getFieldIterate(tb, key, limit,
                             [curobj |-> obj, i |-> 0, done |-> FALSE, val |-> LNil])
    IN IF x.done THEN TRet(x.val, NoErr, x.i) ELSE TRet(LNil, MsgGetLoop, x.i)

getFieldOneMore(tb, obj, key) == getFieldLoop(tb, obj, key, MaxTableGetLoop + 1)

getField(tb, obj, key) == getFieldLoop(tb, obj, key, MaxTableGetLoop)

\* t[key] = val of a script, on a table without __newindex.
TblRawSet(t, key, val) ==
    /\ TblRuns
    /\ tbl' = RawSetString(tbl, t, key, val)
    /\ tret' = TRet(LNil, NoErr, 0)
    /\ tSteps' = tSteps + 1
    /\ tOp' = TOp("RawSet", "base", t, key)
    /\ UNCHANGED notTbl

SetMetatable(lib, obj, mt) ==
    LET r == IF lib = "base" THEN baseSetMetatable(tbl, obj, mt)
             ELSE debugSetMetatable(tbl, obj, mt) IN
    /\ TblRuns
    /\ tbl' = r.tbl
    /\ tret' = TRet(IF r.err = NoErr THEN obj ELSE LNil, r.err, 0)
    /\ tSteps' = tSteps + 1
    /\ tOp' = TOp("SetMetatable", lib, obj, mt)
    /\ UNCHANGED notTbl

GetMetatable(lib, obj) ==
    /\ TblRuns
    /\ tret' = TRet(IF lib = "base" THEN baseGetMetatable(tbl, obj)
                    ELSE debugGetMetatable(tbl, obj), NoErr, 0)
    /\ tSteps' = tSteps + 1
    /\ tOp' = TOp("GetMetatable", lib, obj, LNil)
    /\ UNCHANGED tbl
    /\ UNCHANGED notTbl

Index(t, key) ==
    /\ TblRuns
    /\ tret' = getField(tbl, t, key)
    /\ tSteps' = tSteps + 1
    /\ tOp' = TOp("Index", "vm", t, key)
    /\ UNCHANGED tbl
    /\ UNCHANGED notTbl

TblNext ==
    \/ \E t \in Tables, key \in TblKeys : \E val \in TblValues(key) : TblRawSet(t, key, val)
    \/ \E lib \in {"base", "debug"}, obj \in Tables \cup {LNil}, mt \in Tables \cup {LNil} :
           SetMetatable(lib, obj, mt)
    \/ \E lib \in {"base", "debug"}, obj \in Tables : GetMetatable(lib, obj)
    \/ \E t \in Tables, key \in TblKeys : Index(t, key)

(***************************************************************************)
(* Part V - traversal of a table with Next (section 3, Table; section 8).  *)
(* baseNext is translated from src/unnamed/part_003; LTable.Next and the   *)
(* table itself are not among the sources and follow section 3: an array   *)
(* part for the keys 1 .. n, a hash part with its keys in insertion order, *)
(* nil values are not entries.                                             *)
(***************************************************************************)
MaxIntKey == 3
MaxSets == 4

\* Keys and values: a number or string key, or nil.
NumKey(n) == [t |-> "number", n |-> n, s |-> ""]
StrKey(s) == [t |-> "string", n |-> 0, s |-> s]
NilKey == [t |-> "nil", n |-> 0, s |-> ""]
NKeys == {NumKey(n) : n \in 1 .. MaxIntKey} \cup {StrKey("a"), StrKey("b")}
NValues == {"v1", "v2"}

InitNextTbl ==
    /\ narray = <<>>
    /\ nkeys = <<>>
    /\ ndict = [k \in NKeys |-> LNil]
    /\ ncursor = NilKey
    /\ nvisited = <<>>
    /\ nphase = "build"
    /\ nSets = 0

InArray(arr, key) == key.t = "number" /\ key.n \in 1 .. Len(arr)
InKeys(keys, key) == \E i \in DOMAIN keys : keys[i] = key
KeyIndex(keys, key) == CHOOSE i \in DOMAIN keys : keys[i] = key

\* The first position from `from` on whose value is not nil, 0 when none.
FirstArray(arr, from) ==
    IF \E i \in from .. Len(arr) : arr[i] # LNil
      THEN CHOOSE i \in from .. Len(arr) :
               arr[i] # LNil /\ \A j \in from .. Len(arr) : arr[j] # LNil => i <= j
      ELSE 0

FirstHash(keys, dict, from) ==
    IF \E i \in from .. Len(keys) : dict[keys[i]] # LNil
      THEN CHOOSE i \in from .. Len(keys) :
               dict[keys[i]] # LNil /\ \A j \in from .. Len(keys) : dict[keys[j]] # LNil => i <= j
      ELSE 0

NextInHash(keys, dict, from) ==
    LET i == FirstHash(keys, dict, from) IN
    IF i = 0 THEN <<NilKey, LNil>> ELSE <<keys[i], dict[keys[i]]>>

\* LTable.Next(key): the entry after key; the array part in index order, then
\* the hash part in the order of its keys; (nil, nil) after the last entry.
LTableNextSkipsHashKey(arr, keys, dict, key) ==
    IF key = NilKey \/ InArray(arr, key)
      THEN LET i == FirstArray(arr, key.n + 1) IN
           IF i # 0 THEN <<NumKey(i), arr[i]>> ELSE NextInHash(keys, dict, 2)
      ELSE NextInHash(keys, dict, KeyIndex(keys, key) + 1)

LTableNext(arr, keys, dict, key) ==
    IF key = NilKey \/ InArray(arr, key)
      THEN LET i == FirstArray(arr, key.n + 1) IN
           IF i # 0 THEN <<NumKey(i), arr[i]>> ELSE NextInHash(keys, dict, 1)
      ELSE NextInHash(keys, dict, KeyIndex(keys, key) + 1)

\* t[key] = val before the traversal: a key of the array part is stored
\* there, the key after its last one extends it, every other key is kept in
\* the hash part; nil is no entry.
NRawSet(key, val) ==
    /\ nphase = "build"
    /\ nSets < MaxSets
    /\ nSets' = nSets + 1
    /\ UNCHANGED <<ncursor, nvisited, nphase>>
    /\ UNCHANGED notNext
    /\ IF InArray(narray, key)
         THEN /\ narray' = [narray EXCEPT ![key.n] = val]
              /\ UNCHANGED <<nkeys, ndict>>
         ELSE IF key.t = "number" /\ key.n = Len(narray) + 1 /\ val # LNil
                                  /\ ~InKeys(nkeys, key)
           THEN /\ narray' = Append(narray, val)
                /\ UNCHANGED <<nkeys, ndict>>
           ELSE /\ ndict' = [ndict EXCEPT ![key] = val]
                /\ nkeys' = IF InKeys(nkeys, key) \/ val = LNil THEN nkeys
                            ELSE Append(nkeys, key)
                /\ UNCHANGED narray

\* The script starts a traversal: the first key it passes is nil.
NStart ==
    /\ nphase = "build"
    /\ nphase' = "traverse"
    /\ ncursor' = NilKey
    /\ nvisited' = <<>>
    /\ UNCHANGED <<narray, nkeys, ndict, nSets>>
    /\ UNCHANGED notNext

\* baseNext: Next(tb, index) returns nil after the last entry, else the key
\* and the value; the script passes the key to its next call.
baseNext ==
    LET kv == LTableNext(narray, nkeys, ndict, ncursor) IN
    /\ nphase = "traverse"
    /\ UNCHANGED <<narray, nkeys, ndict, nSets>>
    /\ UNCHANGED notNext
    /\ IF kv[1] = NilKey
         THEN /\ nphase' = "done"
              /\ UNCHANGED <<ncursor, nvisited>>
         ELSE /\ ncursor' = kv[1]
              /\ nvisited' = Append(nvisited, kv)
              /\ UNCHANGED nphase

NextNext ==
    \/ \E key \in NKeys, val \in NValues \cup {LNil} : NRawSet(key, val)
    \/ NStart
    \/ baseNext

(***************************************************************************)
(* Part VI - the limits of the call-frame stack and of the register stack  *)
(* (section 6, Register stack growth).  The limits are those of            *)
(* src/stringlib.go (the file holds the configuration after the string     *)
(* library); the stacks are not among the sources and follow section 6.    *)
(* One function that calls itself fills the stacks: each of its frames     *)
(* uses the same number of registers.                                      *)
(***************************************************************************)
MaxFrameSlots == 40
CallStackSize == 256
RegistrySize == 256 * 20
RegistryGrowStep == 32

FrameSlots == {8, 20, MaxFrameSlots}
MsgCallOverflow == "stack overflow"
MsgRegOverflow == "registry overflow"

InitLim ==
    /\ lslots = 0
    /\ ldepth = 0
    /\ lregTop = 0
    /\ lregCap = 0
    /\ lerr = NoErr

\* The allocation that holds `need` registers: the present one grown by
\* whole steps.
GrownTo(cap, need) ==
    IF need <= cap THEN cap
    ELSE cap + RegistryGrowStep * (((need - cap) + RegistryGrowStep - 1) \div RegistryGrowStep)

\* A call: the error it raises, or NoErr when the frame and its registers fit.
pushCallFrameOneOver(depth, top, slots) ==
    IF depth > CallStackSize THEN MsgCallOverflow
    ELSE IF GrownTo(0, top + slots) > RegistrySize THEN MsgRegOverflow
    ELSE NoErr

pushCallFrame(depth, top, slots) ==
    IF depth >= CallStackSize THEN MsgCallOverflow
    ELSE IF GrownTo(0, top + slots) > RegistrySize THEN MsgRegOverflow
    ELSE NoErr

\* The script is loaded: its main chunk is the first frame.
LimLoad(slots) ==
    /\ lslots = 0
    /\ lslots' = slots
    /\ ldepth' = 1
    /\ lregTop' = slots
    /\ lregCap' = GrownTo(lregCap, slots)
    /\ UNCHANGED lerr
    /\ UNCHANGED notLim

\* The function calls itself.
LimCall ==
    LET e == pushCallFrame(ldepth, lregTop, lslots) IN
    /\ lslots # 0
    /\ lerr = NoErr
    /\ lerr' = e
    /\ UNCHANGED lslots
    /\ UNCHANGED notLim
    /\ IF e = NoErr
         THEN /\ ldepth' = ldepth + 1
              /\ lregTop' = lregTop + lslots
              /\ lregCap' = GrownTo(lregCap, lregTop + lslots)
         ELSE UNCHANGED <<ldepth, lregTop, lregCap>>

\* The function returns.
LimReturn ==
    /\ lerr = NoErr
    /\ ldepth > 1
    /\ ldepth' = ldepth - 1
    /\ lregTop' = lregTop - lslots
    /\ UNCHANGED <<lslots, lregCap, lerr>>
    /\ UNCHANGED notLim

\* The stack error unwinds to a protected call made by frame k.
LimUnwind(k) ==
    /\ lerr # NoErr
    /\ k \in 1 .. ldepth
    /\ lerr' = NoErr
    /\ ldepth' = k
    /\ lregTop' = k * lslots
    /\ UNCHANGED <<lslots, lregCap>>
    /\ UNCHANGED notLim

LimNext ==
    \/ \E slots \in FrameSlots : LimLoad(slots)
    \/ LimCall
    \/ LimReturn
    \/ \E k \in {1, CallStackSize \div 2} : LimUnwind(k)

(***************************************************************************)
(* Part VII - the numeric for loop (section 4.1, FORPREP and FORLOOP;      *)
(* section 8).  The two instructions are those of src/opcode.go, lines     *)
(* 140-143, and do what is written there; the interpreter is not among     *)
(* the sources, the error of a zero step follows section 8.  A number is   *)
(* an LNumber, a binary floating-point number (src/stringlib.go, line      *)
(* 777): the model keeps MantBits bits of mantissa where float64 keeps     *)
(* 53, so that a sum is rounded as it is there.                            *)
(***************************************************************************)
MantBits == 3
MaxNum == 20
MaxForStep == 2

\* The distance between neighbouring numbers at the magnitude a >= 0.
RECURSIVE UlpOf(_, _)
UlpOf(a, u) == IF a < (2 ^ MantBits) * u THEN u ELSE UlpOf(a, 2 * u)

\* Round to nearest, ties to the even mantissa.
RoundNat(a) ==
    LET u == UlpOf(a, 1)
        q == a \div u
        r == a % u
    IN IF 2 * r < u THEN q * u
       ELSE IF 2 * r > u THEN (q + 1) * u
       ELSE IF q % 2 = 0 THEN q * u ELSE (q + 1) * u

\* The LNumber nearest to the real number x.
LNumber(x) == IF x >= 0 THEN RoundNat(x) ELSE 0 - RoundNat(0 - x)

\* The numbers a script can write.
LNumbers == {x \in (0 - MaxNum) .. MaxNum : LNumber(x) = x}
ForSteps == (0 - MaxForStep) .. MaxForStep

InitFor ==
    /\ fRA = 0
    /\ fLimit = 0
    /\ fStep = 0
    /\ fVar = 0
    /\ fInit = 0
    /\ fRan = FALSE
    /\ fPhase = "idle"

\* OP_FORPREP: R(A) -= R(A+2); pc += sBx (to the FORLOOP).  A zero step is
\* an error.
OP_FORPREP(init, limit, step) ==
    /\ fPhase = "idle"
    /\ fInit' = init
    /\ fLimit' = limit
    /\ fStep' = step
    /\ fRA' = IF step = 0 THEN init ELSE LNumber(init - step)
    /\ fPhase' = IF step = 0 THEN "error" ELSE "loop"
    /\ UNCHANGED <<fVar, fRan>>
    /\ UNCHANGED notFor

\* OP_FORLOOP: R(A) += R(A+2); if R(A) <?= R(A+1) then { pc += sBx (to the
\* body, which comes back here); R(A+3) = R(A) }.
OP_FORLOOP ==
    LET idx == LNumber(fRA + fStep) IN
    /\ fPhase = "loop"
    /\ fRA' = idx
    /\ IF (fStep > 0 /\ idx <= fLimit) \/ (fStep < 0 /\ idx >= fLimit)
         THEN /\ fVar' = idx
              /\ fRan' = TRUE
              /\ UNCHANGED fPhase
         ELSE /\ fPhase' = "done"
              /\ UNCHANGED <<fVar, fRan>>
    /\ UNCHANGED <<fLimit, fStep, fInit>>
    /\ UNCHANGED notFor

ForNext ==
    \/ \E init \in LNumbers, limit \in LNumbers, step \in ForSteps : OP_FORPREP(init, limit, step)
    \/ OP_FORLOOP

(***************************************************************************)
(* Part VIII - jsonlib.Encode and jsonlib.Decode, translated from          *)
(* src/dataconvert.go (the file holds the JSON library after the           *)
(* conversions).  encoding/json is Go's: Marshal writes the text of a      *)
(* value, Unmarshal parses it.  tablePool is a sync.Pool: Get returns a    *)
(* table that was put back, or a new one.                                  *)
(***************************************************************************)
MaxJLen == 2

JKeys == {"a", "b"}
JKeyOrder == <<"a", "b">>
Digits == <<"1", "2">>
MaxJTables == 2 * (MaxJLen + 1)
MaxGets == MaxJLen + 1

\* Lua values: a number, a table of the heap, or nil.
LVNumber(n) == [t |-> "number", n |-> n, ref |-> 0]
LVTable(id) == [t |-> "table", n |-> 0, ref |-> id]
LVNil == [t |-> "nil", n |-> 0, ref |-> 0]
EmptyTable == [array |-> <<>>, strdict |-> [k \in JKeys |-> LVNil]]

\* Go values: float64, []interface{} and map[string]interface{}.
GNum(n) == [g |-> "float64", n |-> n]
GArr(e) == [g |-> "slice", e |-> e]
GMap(m) == [g |-> "map", m |-> m]

\* The values a script encodes: arrays of up to MaxJLen values and maps; a
\* value is a number, or an array or a map of numbers.
SeqsOf(S, n) == UNION {[1 .. k -> S] : k \in 1 .. n}
MapsOf(S) == UNION {[K -> S] : K \in (SUBSET JKeys) \ {{}}}
JLeaves == {GNum(n) : n \in DOMAIN Digits}
JInner == JLeaves \cup {GArr(e) : e \in SeqsOf(JLeaves, Len(Digits))}
                  \cup {GMap(m) : m \in MapsOf(JLeaves)}
JDocs == {GArr(e) : e \in SeqsOf(JInner, MaxJLen)} \cup {GMap(m) : m \in MapsOf(JInner)}

InitJson ==
    /\ jheap = [id \in 1 .. MaxJTables |-> EmptyTable]
    /\ jnext = 1
    /\ jpool = <<>>
    /\ jt = LVNil
    /\ jdata = <<>>
    /\ jres = LVNil
    /\ jphase = "idle"

\* The keys of m in the order of JKeyOrder.
RECURSIVE OrderedKeys(_, _)
OrderedKeys(K, i) ==
    IF i > Len(JKeyOrder) THEN <<>>
    ELSE (IF JKeyOrder[i] \in K THEN <<JKeyOrder[i]>> ELSE <<>>) \o OrderedKeys(K, i + 1)

RawSetInt(array, i, lv) ==
    IF i = Len(array) + 1 THEN Append(array, lv)
    ELSE IF i \in 1 .. Len(array) THEN [array EXCEPT ![i] = lv]
    ELSE array

\* The state the conversions thread: the heap, the pool, the next new table
\* and, per Get of the pool still to come, whether it returns a pooled table.
JState(heap, pool, next, gets) == [heap |-> heap, pool |-> pool, next |-> next, gets |-> gets]

\* tablePool.Get(): the table put back last, or a new one.
tablePoolGet(st) ==
    LET rest == IF Len(st.gets) > 0 THEN Tail(st.gets) ELSE <<>> IN
    IF Len(st.gets) > 0 /\ Head(st.gets) /\ Len(st.pool) > 0
      THEN [st |-> [st EXCEPT !.pool = SubSeq(st.pool, 1, Len(st.pool) - 1), !.gets = rest],
            id |-> st.pool[Len(st.pool)]]
      ELSE [st |-> [st EXCEPT !.next = st.next + 1, !.gets = rest], id |-> st.next]

\* goToLValue: a number is a number; a slice fills a table of the pool,
\* cleared, and puts the table back into the pool when it returns; a map
\* fills a new table.
RECURSIVE goToLValue(_, _)
RECURSIVE sliceElems(_, _, _, _)
RECURSIVE mapElems(_, _, _, _, _)
goToLValue(st, v) ==
    IF v.g = "float64" THEN [st |-> st, lv |-> LVNumber(v.n)]
    ELSE IF v.g = "slice"
      THEN LET got == tablePoolGet(st)
               st1 == [got.st EXCEPT !.heap[got.id] = EmptyTable]
               st2 == sliceElems(st1, got.id, v.e, 1)
           IN [st |-> [st2 EXCEPT !.pool = Append(st2.pool, got.id)], lv |-> LVTable(got.id)]
      ELSE LET st1 == [st EXCEPT !.heap[st.next] = EmptyTable, !.next = st.next + 1]
           IN [st |-> mapElems(st1, st.next, v.m, OrderedKeys(DOMAIN v.m, 1), 1),
               lv |-> LVTable(st.next)]

sliceElems(st, id, elems, i) ==
    IF i > Len(elems) THEN st
    ELSE LET r == goToLValue(st, elems[i])
         IN sliceElems([r.st EXCEPT !.heap[id].array = RawSetInt(@, i, r.lv)], id, elems, i + 1)

mapElems(st, id, m, keys, i) ==
    IF i > Len(keys) THEN st
    ELSE LET r == goToLValue(st, m[keys[i]])
         IN mapElems([r.st EXCEPT !.heap[id].strdict[keys[i]] = r.lv], id, m, keys, i + 1)

\* A table constructor of the script, for a value nested once: the table
\* is table 1, its j-th nested table is table 1 + j; none is in the pool.
LeafTable(v) ==
    IF v.g = "slice"
      THEN [array |-> [i \in 1 .. Len(v.e) |-> LVNumber(v.e[i].n)],
            strdict |-> [k \in JKeys |-> LVNil]]
      ELSE [array |-> <<>>,
            strdict |-> [k \in JKeys |-> IF k \in DOMAIN v.m THEN LVNumber(v.m[k].n) ELSE LVNil]]

ChildLV(c, j) == IF c.g = "float64" THEN LVNumber(c.n) ELSE LVTable(1 + j)
PosOf(keys, k) == CHOOSE i \in DOMAIN keys : keys[i] = k

Children(doc) ==
    IF doc.g = "slice" THEN doc.e
    ELSE LET keys == OrderedKeys(DOMAIN doc.m, 1) IN [i \in 1 .. Len(keys) |-> doc.m[keys[i]]]

RootTable(doc) ==
    IF doc.g = "slice"
      THEN [array |-> [j \in 1 .. Len(doc.e) |-> ChildLV(doc.e[j], j)],
            strdict |-> [k \in JKeys |-> LVNil]]
      ELSE LET keys == OrderedKeys(DOMAIN doc.m, 1) IN
           [array |-> <<>>,
            strdict |-> [k \in JKeys |-> IF k \in DOMAIN doc.m
                                          THEN ChildLV(doc.m[k], PosOf(keys, k)) ELSE LVNil]]

TableConstructor(heap, doc) ==
    LET cs == Children(doc) IN
    [id \in DOMAIN heap |->
        IF id = 1 THEN RootTable(doc)
        ELSE IF id - 1 \in DOMAIN cs /\ cs[id - 1].g # "float64" THEN LeafTable(cs[id - 1])
        ELSE heap[id]]

\* LTable.ForEach: the keys of the array part with a non-nil value, then the
\* string keys.
ForEachKeys(tb) ==
    LET nums == [i \in 1 .. Len(tb.array) |-> [num |-> TRUE, n |-> i, s |-> ""]]
        strs == OrderedKeys({k \in JKeys : tb.strdict[k] # LVNil}, 1)
    IN SelectSeq(nums, LAMBDA k : tb.array[k.n] # LVNil)
         \o [i \in 1 .. Len(strs) |-> [num |-> FALSE, n |-> 0, s |-> strs[i]]]

\* isArrayTable: the keys are 1, 2, ... in this order and nothing else.
RECURSIVE isArrayFold(_, _, _, _)
isArrayFold(keys, i, count, maxIndex) ==
    IF i > Len(keys) THEN [isArray |-> maxIndex > 0 /\ count = maxIndex, maxIndex |-> maxIndex]
    ELSE IF keys[i].num /\ keys[i].n > 0 /\ keys[i].n = count + 1
      THEN isArrayFold(keys, i + 1, count + 1,
                       IF keys[i].n > maxIndex THEN keys[i].n ELSE maxIndex)
      ELSE isArrayFold(keys, i + 1, count, 0 - 1)

isArrayTable(tb) == isArrayFold(ForEachKeys(tb), 1, 0, 0)

\* lvalueToString of a key: a string is itself, a number is written out.
lvalueToString(k) == IF k.num THEN (IF k.n \in DOMAIN Digits THEN Digits[k.n] ELSE "n") ELSE k.s

\* tableToGo / lvalueToGo: an array table gives a slice, any other table a
\* map with the keys as strings.
RECURSIVE lvalueToGo(_, _)
tableToGo(heap, id) ==
    LET tb == heap[id]
        keys == ForEachKeys(tb)
        ia == isArrayTable(tb)
        valueOf(k) == IF k.num THEN tb.array[k.n] ELSE tb.strdict[k.s]
    IN IF ia.isArray
         THEN GArr([i \in 1 .. ia.maxIndex |-> lvalueToGo(heap, tb.array[i])])
         ELSE GMap([s \in {lvalueToString(keys[i]) : i \in DOMAIN keys} |->
                      lvalueToGo(heap, valueOf(CHOOSE k \in {keys[i] : i \in DOMAIN keys} :
                                                   lvalueToString(k) = s))])

lvalueToGo(heap, lv) ==
    IF lv.t = "table" THEN tableToGo(heap, lv.ref) ELSE GNum(lv.n)

\* json.Marshal: the text of a value, token by token; the keys of a map in
\* sorted order.
KeyToken(k) == "\"" \o k \o "\""
RECURSIVE jsonMarshal(_)
RECURSIVE marshalElems(_, _)
RECURSIVE marshalMembers(_, _, _)
jsonMarshal(v) ==
    IF v.g = "float64" THEN <<Digits[v.n]>>
    ELSE IF v.g = "slice" THEN <<"[">> \o marshalElems(v.e, 1) \o <<"]">>
    ELSE <<"{">> \o marshalMembers(v.m, OrderedKeys(DOMAIN v.m, 1), 1) \o <<"}">>

marshalElems(e, i) ==
    IF i > Len(e) THEN <<>>
    ELSE (IF i > 1 THEN <<",">> ELSE <<>>) \o jsonMarshal(e[i]) \o marshalElems(e, i + 1)

marshalMembers(m, keys, i) ==
    IF i > Len(keys) THEN <<>>
    ELSE (IF i > 1 THEN <<",">> ELSE <<>>) \o <<KeyToken(keys[i]), ":">>
           \o jsonMarshal(m[keys[i]]) \o marshalMembers(m, keys, i + 1)

\* json.Unmarshal: the value of the text that starts at token p, and the
\* position after it.
RECURSIVE parseValue(_, _)
RECURSIVE parseElems(_, _, _)
RECURSIVE parseMembers(_, _, _)
parseValue(toks, p) ==
    IF toks[p] = "[" THEN parseElems(toks, p + 1, <<>>)
    ELSE IF toks[p] = "{" THEN parseMembers(toks, p + 1, <<>>)
    ELSE [v |-> GNum(CHOOSE n \in DOMAIN Digits : Digits[n] = toks[p]), p |-> p + 1]

parseElems(toks, p, acc) ==
    IF toks[p] = "]" THEN [v |-> GArr(acc), p |-> p + 1]
    ELSE LET r == parseValue(toks, IF toks[p] = "," THEN p + 1 ELSE p)
         IN parseElems(toks, r.p, Append(acc, r.v))

\* acc: the members read, as <<key, value>> pairs.
parseMembers(toks, p, acc) ==
    IF toks[p] = "}"
      THEN [v |-> GMap([k \in {acc[i][1] : i \in DOMAIN acc} |->
                          (acc[CHOOSE i \in DOMAIN acc : acc[i][1] = k])[2]]),
            p |-> p + 1]
    ELSE LET q == IF toks[p] = "," THEN p + 1 ELSE p
             k == CHOOSE key \in JKeys : KeyToken(key) = toks[q]
             r == parseValue(toks, q + 2)
         IN parseMembers(toks, r.p, Append(acc, <<k, r.v>>))

jsonUnmarshal(toks) == parseValue(toks, 1).v

\* The script builds the table it will encode.
JsonBuild ==
    /\ jphase = "idle"
    /\ \E doc \in JDocs :
          /\ jheap' = TableConstructor(jheap, doc)
          /\ jnext' = 2 + Len(Children(doc))
    /\ jt' = LVTable(1)
    /\ jphase' = "built"
    /\ UNCHANGED <<jpool, jdata, jres>>
    /\ UNCHANGED notJson

\* jsonEncode: tableToGo, then json.Marshal.
jsonEncode ==
    /\ jphase = "built"
    /\ jdata' = jsonMarshal(tableToGo(jheap, jt.ref))
    /\ jphase' = "encoded"
    /\ UNCHANGED <<jheap, jnext, jpool, jt, jres>>
    /\ UNCHANGED notJson

\* jsonDecode: json.Unmarshal, then goToLValue.
jsonDecode(gets) ==
    LET r == goToLValue(JState(jheap, jpool, jnext, gets), jsonUnmarshal(jdata)) IN
    /\ jphase = "encoded"
    /\ jheap' = r.st.heap
    /\ jpool' = r.st.pool
    /\ jnext' = r.st.next
    /\ jres' = r.lv
    /\ jphase' = "decoded"
    /\ UNCHANGED <<jt, jdata>>
    /\ UNCHANGED notJson

JsonNext ==
    \/ JsonBuild
    \/ jsonEncode
    \/ \E gets \in [1 .. MaxGets -> BOOLEAN] : jsonDecode(gets)

(***************************************************************************)
(* Part IX - tbllib.Pack and tbllib.Unpack, translated from                *)
(* src/debuglib.go (the file holds the table library after the debug       *)
(* one).  The table is not among the sources: by section 3 a nil value is  *)
(* no entry and Len returns a border of the table.                         *)
(***************************************************************************)
MaxPack == 4

PackValues == {"v1", "v2", LNil}

InitPack ==
    /\ pkArgs = <<>>
    /\ pkTbl = <<>>
    /\ pkOut = <<>>
    /\ pkPhase = "idle"

RawGetInt(array, i) == IF i \in 1 .. Len(array) THEN array[i] ELSE LNil

\* LTable.Len: a border of the table, an n with t[n] # nil (or n = 0) and
\* t[n+1] = nil.
Borders(array) ==
    {n \in 0 .. Len(array) : /\ (n = 0 \/ array[n] # LNil)
                             /\ RawGetInt(array, n + 1) = LNil}

\* tablePack: t = NewTable(); for i = 1 .. GetTop(): t.RawSetInt(i, Get(i)).
RECURSIVE tablePackLoop(_, _, _)
tablePackLoop(array, args, i) ==
    IF i > Len(args) THEN array
    ELSE tablePackLoop(RawSetInt(array, i, args[i]), args, i + 1)

tablePack(args) == tablePackLoop(<<>>, args, 1)

\* tableUnpack(tb, start, end): pushes tb[start] .. tb[end] and returns
\* end - start + 1 values, none when that is negative.
tableUnpack(array, start, end) ==
    IF end - start + 1 < 0 THEN <<>>
    ELSE [i \in 1 .. (end - start + 1) |-> RawGetInt(array, start + i - 1)]

Pack ==
    /\ pkPhase = "idle"
    /\ \E k \in 0 .. MaxPack : \E args \in [1 .. k -> PackValues] :
          /\ pkArgs' = args
          /\ pkTbl' = tablePack(args)
    /\ pkPhase' = "packed"
    /\ UNCHANGED pkOut
    /\ UNCHANGED notPack

\* Unpack(t): start is 1 and end is tb.Len().
Unpack ==
    /\ pkPhase = "packed"
    /\ \E n \in Borders(pkTbl) : pkOut' = tableUnpack(pkTbl, 1, n)
    /\ pkPhase' = "unpacked"
    /\ UNCHANGED <<pkArgs, pkTbl>>
    /\ UNCHANGED notPack

PackNext ==
    \/ Pack
    \/ Unpack

(***************************************************************************)
(* Part X - ToNumber and ToString.  baseToNumber is translated from        *)
(* src/unnamed/part_003, with strconv.ParseFloat and strconv.ParseInt,     *)
(* which are Go's.  baseToString returns L.ToStringMeta(v); the text of a  *)
(* number is not among the sources: it is the text Go prints for a number  *)
(* (an integer as an integer, any other number with %v, as                 *)
(* lvalueToString of src/dataconvert.go prints a number key).              *)
(* A number is its sign, its decimal digits d1 .. dn (d1, dn # 0) and the  *)
(* position dp of its decimal point: 0.d1...dn * 10^dp.                    *)
(***************************************************************************)
MaxDigits == 2
MaxDp == 5

DigitChars == <<"0", "1", "2", "3", "4", "5", "6", "7", "8", "9">>
IsDigit(c) == \E i \in DOMAIN DigitChars : DigitChars[i] = c
DigitChar(d) == DigitChars[d + 1]
DigitVal(c) == (CHOOSE i \in DOMAIN DigitChars : DigitChars[i] = c) - 1

Num(neg, digits, dp) == [neg |-> neg, digits |-> digits, dp |-> dp]
Zero == Num(FALSE, <<>>, 0)
TnRet(ok, n) == [ok |-> ok, n |-> n]
TnNil == TnRet(FALSE, Zero)

\* The finite numbers of the model.
DigitSeqs == {ds \in UNION {[1 .. k -> 0 .. 9] : k \in 1 .. MaxDigits} :
                 ds[1] # 0 /\ ds[Len(ds)] # 0}
FiniteNumbers == {Zero} \cup {Num(neg, ds, dp) : neg \in BOOLEAN, ds \in DigitSeqs,
                                                 dp \in (0 - MaxDp) .. MaxDp}

InitToNum ==
    /\ tnNum = Zero
    /\ tnStr = <<>>
    /\ tnRes = TnNil
    /\ tnPhase = "idle"

Repeat(c, k) == [i \in 1 .. k |-> c]
Chars(ds) == [i \in 1 .. Len(ds) |-> DigitChar(ds[i])]
Sign(n) == IF n.neg THEN <<"-">> ELSE <<>>

\* A decimal exponent as Go prints it: a sign and at least two digits.
ExpChars(e) ==
    LET a == IF e < 0 THEN 0 - e ELSE e IN
    <<IF e < 0 THEN "-" ELSE "+">> \o <<DigitChar(a \div 10), DigitChar(a % 10)>>

\* isInteger: the number has no digit behind the decimal point.
isInteger(n) == Len(n.digits) <= n.dp \/ n = Zero

\* fmt.Sprint(int64(n)).
FormatInt(n) ==
    IF n = Zero THEN <<"0">>
    ELSE Sign(n) \o Chars(n.digits) \o Repeat("0", n.dp - Len(n.digits))

\* fmt.Sprint(float64(n)), that is %v: the shortest digits; with an exponent
\* (%e) when the exponent is less than -4 or at least 6, else without (%f).
FormatE(n) ==
    Sign(n) \o <<DigitChar(n.digits[1])>>
      \o (IF Len(n.digits) > 1 THEN <<".">> \o Chars(Tail(n.digits)) ELSE <<>>)
      \o <<"e">> \o ExpChars(n.dp - 1)

FormatF(n) ==
    IF n.dp <= 0
      THEN Sign(n) \o <<"0", ".">> \o Repeat("0", 0 - n.dp) \o Chars(n.digits)
      ELSE Sign(n) \o Chars(SubSeq(n.digits, 1, n.dp)) \o <<".">>
             \o Chars(SubSeq(n.digits, n.dp + 1, Len(n.digits)))

\* LNumber.String.
LNumberString(n) ==
    IF isInteger(n) THEN FormatInt(n)
    ELSE IF n.dp - 1 < 0 - 4 \/ n.dp - 1 >= 6 THEN FormatE(n)
    ELSE FormatF(n)

\* The number with the digits ds and the decimal point at dp, without its
\* leading and trailing zeros.
RECURSIVE Normalize(_, _, _)
Normalize(neg, ds, dp) ==
    IF ds = <<>> THEN Zero
    ELSE IF ds[1] = 0 THEN Normalize(neg, Tail(ds), dp - 1)
    ELSE IF ds[Len(ds)] = 0 THEN Normalize(neg, SubSeq(ds, 1, Len(ds) - 1), dp)
    ELSE Num(neg, ds, dp)

IndexOf(str, chars) ==
    IF \E i \in DOMAIN str : str[i] \in chars
      THEN CHOOSE i \in DOMAIN str : str[i] \in chars /\ \A j \in 1 .. i - 1 : str[j] \notin chars
      ELSE 0

AllDigits(str) == \A i \in DOMAIN str : IsDigit(str[i])
Digs(str) == [i \in 1 .. Len(str) |-> DigitVal(str[i])]
Unsigned(str) == IF str # <<>> /\ str[1] \in {"+", "-"} THEN Tail(str) ELSE str
IsNeg(str) == str # <<>> /\ str[1] = "-"

\* The value of a sequence of digits.
RECURSIVE IntValue(_)
IntValue(ds) == IF ds = <<>> THEN 0 ELSE 10 * IntValue(SubSeq(ds, 1, Len(ds) - 1)) + ds[Len(ds)]

\* strconv.ParseInt(str, 10, 64): an optional sign and decimal digits.
ParseInt(str) ==
    LET u == Unsigned(str) IN
    IF u = <<>> \/ ~AllDigits(u) \/ Len(u) > 18 THEN TnNil
    ELSE TnRet(TRUE, Normalize(IsNeg(str), Digs(u), Len(u)))

\* strconv.ParseFloat(str, 64): an optional sign, digits with an optional
\* point, an optional exponent.
ParseFloat(str) ==
    LET u == Unsigned(str)
        e == IndexOf(u, {"e", "E"})
        mant == IF e = 0 THEN u ELSE SubSeq(u, 1, e - 1)
        expo == IF e = 0 THEN <<>> ELSE SubSeq(u, e + 1, Len(u))
        p == IndexOf(mant, {"."})
        int == IF p = 0 THEN mant ELSE SubSeq(mant, 1, p - 1)
        frac == IF p = 0 THEN <<>> ELSE SubSeq(mant, p + 1, Len(mant))
        ue == Unsigned(expo)
    IN IF int \o frac = <<>> \/ ~AllDigits(int \o frac) THEN TnNil
       ELSE IF e # 0 /\ (ue = <<>> \/ ~AllDigits(ue)) THEN TnNil
       ELSE TnRet(TRUE, Normalize(IsNeg(str), Digs(int \o frac),
                       Len(int) + (IF e = 0 THEN 0
                                   ELSE IF IsNeg(expo) THEN 0 - IntValue(Digs(ue))
                                   ELSE IntValue(Digs(ue)))))

\* strings.Trim(str, " \n\t").
RECURSIVE Trim(_)
Trim(str) ==
    IF str = <<>> THEN str
    ELSE IF str[1] \in {" ", "\n", "\t"} THEN Trim(Tail(str))
    ELSE IF str[Len(str)] \in {" ", "\n", "\t"} THEN Trim(SubSeq(str, 1, Len(str) - 1))
    ELSE str

HasPrefix(str, c) == Len(str) >= 2 /\ str[1] = "0" /\ str[2] \in c

\* baseToNumber of a string, without a base argument: a string with a "."
\* is parsed as a float; any other string as an integer, of base 16, 2 or 8
\* after 0x, 0b or 0o (none here: the digits of the model are decimal).
baseToNumber(lv) ==
    LET str == Trim(lv) IN
    IF IndexOf(str, {"."}) > 0 THEN ParseFloat(str)
    ELSE IF HasPrefix(str, {"x", "X", "b", "B", "o", "O"}) THEN TnNil
    ELSE ParseInt(str)

\* baseToString: L.ToStringMeta of a number.
baseToString(n) == LNumberString(n)

CallToString ==
    /\ tnPhase = "idle"
    /\ \E n \in FiniteNumbers :
          /\ tnNum' = n
          /\ tnStr' = baseToString(n)
    /\ tnPhase' = "string"
    /\ UNCHANGED tnRes
    /\ UNCHANGED notToNum

CallToNumber ==
    /\ tnPhase = "string"
    /\ tnRes' = baseToNumber(tnStr)
    /\ tnPhase' = "number"
    /\ UNCHANGED <<tnNum, tnStr>>
    /\ UNCHANGED notToNum

ToNumNext ==
    \/ CallToString
    \/ CallToNumber

(***************************************************************************)
(* Part XI.  string.find.                                                  *)
(*                                                                         *)
(* strFind is translated from the library; the pattern matcher pm.Find is  *)
(* described by section 4.7: single-byte atoms (a literal byte or "."),    *)
(* the quantifiers "*", "-" and "?", the anchors "^" and "$".  No pattern  *)
(* over these bytes is malformed, so pm.Find returns no error here.        *)
(* A string is the sequence of its bytes; 0xC3 0xA9 is one rune of two     *)
(* bytes, a lone 0xC3 or 0xA9 is an invalid byte and counts as one rune.   *)
(***************************************************************************)
MaxFindLen == 2

StrBytes == {"a", "C3", "A9"}
PatBytes == {"a", ".", "*", "-", "?", "^", "$"}
FindInits == (0 - (MaxFindLen + 1)) .. (MaxFindLen + 2)

BytesOf(alphabet) == UNION {[1 .. k -> alphabet] : k \in 0 .. MaxFindLen}

\* What a call leaves: nil, the two offsets, or the Go run-time panic of a
\* slice expression out of range.
FNil == [kind |-> "nil", i |-> 0, j |-> 0]
FMatch(i, j) == [kind |-> "match", i |-> i, j |-> j]
FPanic == [kind |-> "panic", i |-> 0, j |-> 0]
FNone == [kind |-> "none", i |-> 0, j |-> 0]

InitFind ==
    /\ fndStr = <<>>
    /\ fndPattern = <<>>
    /\ fndInit = 1
    /\ fndPlain = FALSE
    /\ fndOut = FNone
    /\ fndPhase = "idle"

intMax(a, b) == IF a > b THEN a ELSE b

\* len([]rune(str)): the runes of the bytes from position k on.
RECURSIVE RuneCount(_, _)
RuneCount(str, k) ==
    IF k > Len(str) THEN 0
    ELSE IF str[k] = "C3" /\ k < Len(str) /\ str[k + 1] = "A9"
         THEN 1 + RuneCount(str, k + 2)
         ELSE 1 + RuneCount(str, k + 1)

luaIndex2StringIndex(str, i, start) ==
    LET l == RuneCount(str, 1)
        i1 == IF start /\ i # 0 THEN i - 1 ELSE i
        i2 == IF i1 < 0 THEN l + i1 + 1 ELSE i1
        i3 == intMax(0, i2)
    IN  IF ~start /\ i3 > l THEN l ELSE i3

\* strings.Index(s, substr): the first byte offset of substr in s, or -1.
stringsIndex(s, substr) ==
    LET hits == {pos \in 0 .. Len(s) - Len(substr) :
                    SubSeq(s, pos + 1, pos + Len(substr)) = substr}
    IN  IF hits = {} THEN 0 - 1
        ELSE CHOOSE pos \in hits : \A other \in hits : pos <= other

\* The matcher: one atom matches the byte after offset pos.
Single(p, k, s, pos) == pos < Len(s) /\ (p[k] = "." \/ p[k] = s[pos + 1])
Quantifier(p, k) == IF k + 1 <= Len(p) THEN p[k + 1] ELSE ""

\* The longest run of bytes from pos that the atom matches.
RECURSIVE MaxRun(_, _, _, _)
MaxRun(p, k, s, pos) ==
    IF Single(p, k, s, pos) THEN 1 + MaxRun(p, k, s, pos + 1) ELSE 0

\* match(p, k, s, pos): the end offset of a match of p from item k at offset
\* pos, or -1.  Greedy quantifiers give back one byte at a time, lazy ones
\* take one byte at a time.
RECURSIVE pmMatch(_, _, _, _), maxExpand(_, _, _, _, _), minExpand(_, _, _, _)
pmMatch(p, k, s, pos) ==
    IF k > Len(p) THEN pos
    ELSE IF p[k] = "$" /\ k = Len(p) THEN (IF pos = Len(s) THEN pos ELSE 0 - 1)
    ELSE IF Quantifier(p, k) = "?"
         THEN LET taken == IF Single(p, k, s, pos)
                           THEN pmMatch(p, k + 2, s, pos + 1) ELSE 0 - 1
              IN  IF taken # 0 - 1 THEN taken ELSE pmMatch(p, k + 2, s, pos)
    ELSE IF Quantifier(p, k) = "*"
         THEN maxExpand(p, k, s, pos, MaxRun(p, k, s, pos))
    ELSE IF Quantifier(p, k) = "-" THEN minExpand(p, k, s, pos)
    ELSE IF Single(p, k, s, pos) THEN pmMatch(p, k + 1, s, pos + 1)
    ELSE 0 - 1

maxExpand(p, k, s, pos, n) ==
    IF n < 0 THEN 0 - 1
    ELSE LET rest == pmMatch(p, k + 2, s, pos + n)
         IN  IF rest # 0 - 1 THEN rest ELSE maxExpand(p, k, s, pos, n - 1)

minExpand(p, k, s, pos) ==
    LET rest == pmMatch(p, k + 2, s, pos)
    IN  IF rest # 0 - 1 THEN rest
        ELSE IF Single(p, k, s, pos) THEN minExpand(p, k, s, pos + 1)
        ELSE 0 - 1

Anchored(p) == Len(p) > 0 /\ p[1] = "^"

\* pm.Find(pattern, src, offset, 1): the first match at or after offset, as
\* the captures 0 and 1 of its match data, or no match data.
RECURSIVE pmFindFrom(_, _, _)
pmFindFrom(p, s, sp) ==
    IF sp > Len(s) THEN FNil
    ELSE LET e == pmMatch(p, IF Anchored(p) THEN 2 ELSE 1, s, sp)
         IN  IF e # 0 - 1 THEN FMatch(sp, e)
             ELSE IF Anchored(p) THEN FNil
             ELSE pmFindFrom(p, s, sp + 1)

pmFind(p, s, offset) == pmFindFrom(p, s, offset)

strFind(str, pattern, i, plain) ==
    IF Len(pattern) = 0 THEN FMatch(1, 0)
    ELSE LET init == luaIndex2StringIndex(str, i, TRUE)
         IN  IF plain
             THEN IF init > Len(str) THEN FPanic        \* str[init:]
                  ELSE LET pos == stringsIndex(SubSeq(str, init + 1, Len(str)),
                                               pattern)
                       IN  IF pos < 0 THEN FNil
                           ELSE FMatch(init + pos + 1,
                                       init + pos + Len(pattern))
             ELSE LET md == pmFind(pattern, str, init)
                  IN  IF md.kind = "nil" THEN FNil
                      ELSE FMatch(md.i + 1, md.j)

\* string.find(str, pattern, i, plain).
Find ==
    /\ fndPhase = "idle"
    /\ \E str \in BytesOf(StrBytes), pattern \in BytesOf(PatBytes),
          i \in FindInits, plain \in BOOLEAN :
            /\ fndStr' = str
            /\ fndPattern' = pattern
            /\ fndInit' = i
            /\ fndPlain' = plain
            /\ fndOut' = strFind(str, pattern, i, plain)
    /\ fndPhase' = "done"
    /\ UNCHANGED notFind

\* The call returns: its arguments and results are popped.
FindReturn ==
    /\ fndPhase = "done"
    /\ fndPhase' = "idle"
    /\ fndOut' = FNone
    /\ fndStr' = <<>>
    /\ fndPattern' = <<>>
    /\ fndInit' = 1
    /\ fndPlain' = FALSE
    /\ UNCHANGED notFind

FindNext ==
    \/ Find
    \/ FindReturn

(***************************************************************************)
(* Part XII.  string.gsub.                                                 *)
(*                                                                         *)
(* strGsub, strGsubTable, strGsubFunc and strGsubDoReplace are translated  *)
(* from the library.  pm.Find with offset 0 and no limit is the matcher of *)
(* part XI applied repeatedly.  A replacement string is a sequence of      *)
(* literal bytes and of "%0" items, each standing for the whole match.     *)
(***************************************************************************)
MaxGsLen == 2

GsStrBytes == {"a", "b"}
GsPatBytes == {"a", ".", "*", "^"}
GsBytesOf(alphabet) == UNION {[1 .. k -> alphabet] : k \in 0 .. MaxGsLen}

\* The values a table holds or a function returns for a match.
GsNil == [t |-> "nil", s |-> <<>>]
GsFalse == [t |-> "false", s |-> <<>>]
GsString(s) == [t |-> "string", s |-> s]
LVIsFalse(v) == v.t \in {"nil", "false"}
LVAsString(v) == IF v.t = "string" THEN v.s ELSE <<>>
ReplValues == {GsNil, GsFalse, GsString(<<>>), GsString(<<"x", "y">>)}
ReplStrings == {<<>>, <<"x", "y">>, <<"%0", "%0">>, <<"x", "%0">>}

InitGsub ==
    /\ gsStr = <<>>
    /\ gsPat = <<>>
    /\ gsRepl = [kind |-> "none"]
    /\ gsMds = <<>>
    /\ gsRets = <<>>
    /\ gsInfo = <<>>
    /\ gsOut = <<>>
    /\ gsPhase = "idle"

\* pm.Find(pat, src, 0, -1): every match from left to right; the search goes
\* on at the end of a match, one byte further after an empty match, and stops
\* after the first attempt of an anchored pattern.
RECURSIVE pmFindAll(_, _, _)
pmFindAll(p, s, sp) ==
    IF sp > Len(s) THEN <<>>
    ELSE LET e == pmMatch(p, IF Anchored(p) THEN 2 ELSE 1, s, sp)
             nsp == IF e # 0 - 1 /\ sp + 1 < e THEN e ELSE sp + 1
             found == IF e # 0 - 1 THEN <<(<<sp, e>>)>> ELSE <<>>
         IN  IF Anchored(p) THEN found
             ELSE found \o pmFindAll(p, s, nsp)

\* replaceInfo{Indicies, String}.
replaceInfo(md, string) == [Indicies |-> md, String |-> string]

\* The bytes of a match: str[m.Capture(0):m.Capture(1)].
capturedString(str, md) == SubSeq(str, md[1] + 1, md[2])

\* The loop of strGsubDoReplace when the offset is not carried from one entry
\* to the next.
RECURSIVE strGsubDoReplaceNoOffset(_, _, _, _)
strGsubDoReplaceNoOffset(buf, info, k, offset) ==
    IF k > Len(info) THEN buf
    ELSE LET replace == info[k]
             b1 == SubSeq(buf, 1, replace.Indicies[1])
             index2 == replace.Indicies[2]
             b2 == IF index2 <= Len(buf)
                   THEN SubSeq(buf, index2 + 1, Len(buf)) ELSE <<>>
         IN  strGsubDoReplaceNoOffset(b1 \o replace.String \o b2, info,
                                      k + 1, 0)

\* strGsubDoReplace: the loop over info from entry k, with buf and offset.
RECURSIVE strGsubDoReplaceLoop(_, _, _, _)
strGsubDoReplaceLoop(buf, info, k, offset) ==
    IF k > Len(info) THEN buf
    ELSE LET replace == info[k]
             b1 == SubSeq(buf, 1, offset + replace.Indicies[1])
             index2 == offset + replace.Indicies[2]
             b2 == IF index2 <= Len(buf)
                   THEN SubSeq(buf, index2 + 1, Len(buf)) ELSE <<>>
             newbuf == b1 \o replace.String \o b2
         IN  strGsubDoReplaceLoop(newbuf, info, k + 1,
                                  offset + Len(newbuf) - Len(buf))

strGsubDoReplace(str, info) == strGsubDoReplaceLoop(str, info, 1, 0)

\* processReplacement: "%0" gives the whole match, a byte gives itself.
RECURSIVE processReplacement(_, _, _, _)
processReplacement(repl, str, md, k) ==
    IF k > Len(repl) THEN <<>>
    ELSE (IF repl[k] = "%0" THEN capturedString(str, md) ELSE <<repl[k]>>)
         \o processReplacement(repl, str, md, k + 1)

RECURSIVE strGsubStrInfo(_, _, _, _)
strGsubStrInfo(str, repl, mds, k) ==
    IF k > Len(mds) THEN <<>>
    ELSE <<replaceInfo(mds[k], processReplacement(repl, str, mds[k], 1))>>
         \o strGsubStrInfo(str, repl, mds, k + 1)

strGsubStr(str, repl, mds) ==
    strGsubDoReplace(str, strGsubStrInfo(str, repl, mds, 1))

\* strGsubTable: L.GetField(repl, the matched text); a false value adds no
\* replaceInfo.
RECURSIVE strGsubTableInfo(_, _, _, _)
strGsubTableInfo(str, replTbl, mds, k) ==
    IF k > Len(mds) THEN <<>>
    ELSE LET value == replTbl[capturedString(str, mds[k])]
         IN  (IF ~LVIsFalse(value)
              THEN <<replaceInfo(mds[k], LVAsString(value))>> ELSE <<>>)
             \o strGsubTableInfo(str, replTbl, mds, k + 1)

strGsubTable(str, replTbl, mds) ==
    strGsubDoReplace(str, strGsubTableInfo(str, replTbl, mds, 1))

\* The keys a table is asked for: the texts of the matches.
MatchTexts(str, mds) == {capturedString(str, mds[k]) : k \in 1 .. Len(mds)}

\* string.gsub(str, pat, repl) up to the first call of a replacement
\* function: with a string or a table the whole call.
strGsub ==
    /\ gsPhase = "idle"
    /\ \E str \in GsBytesOf(GsStrBytes), pat \in GsBytesOf(GsPatBytes) :
          LET mds == pmFindAll(pat, str, 0)
          IN  /\ gsStr' = str
              /\ gsPat' = pat
              /\ gsMds' = mds
              /\ gsRets' = <<>>
              /\ gsInfo' = <<>>
              /\ \/ \E repl \in ReplStrings :
                      /\ gsRepl' = [kind |-> "string", s |-> repl]
                      /\ gsOut' = IF Len(mds) = 0 THEN str
                                  ELSE strGsubStr(str, repl, mds)
                      /\ gsPhase' = "done"
                 \/ \E replTbl \in [MatchTexts(str, mds) -> ReplValues] :
                      /\ gsRepl' = [kind |-> "table", tbl |-> replTbl]
                      /\ gsOut' = IF Len(mds) = 0 THEN str
                                  ELSE strGsubTable(str, replTbl, mds)
                      /\ gsPhase' = "done"
                 \/ /\ gsRepl' = [kind |-> "function"]
                    /\ gsOut' = IF Len(mds) = 0 THEN str ELSE <<>>
                    /\ gsPhase' = IF Len(mds) = 0 THEN "done" ELSE "calling"
    /\ UNCHANGED notGsub

\* strGsubFunc: one turn of the loop, L.Call(nargs, 1) returning a value; after
\* the last match strGsubDoReplace builds the result.
strGsubFunc ==
    /\ gsPhase = "calling"
    /\ \E fnRet \in ReplValues :
          LET match == gsMds[Len(gsRets) + 1]
              info == IF ~LVIsFalse(fnRet)
                      THEN Append(gsInfo, replaceInfo(match, LVAsString(fnRet)))
                      ELSE gsInfo
          IN  /\ gsRets' = Append(gsRets, fnRet)
              /\ gsInfo' = info
              /\ IF Len(gsRets) + 1 = Len(gsMds)
                 THEN /\ gsOut' = strGsubDoReplace(gsStr, info)
                      /\ gsPhase' = "done"
                 ELSE UNCHANGED <<gsOut, gsPhase>>
    /\ UNCHANGED <<gsStr, gsPat, gsRepl, gsMds>>
    /\ UNCHANGED notGsub

\* The call returns: its arguments and results are popped.
GsubReturn ==
    /\ gsPhase = "done"
    /\ gsStr' = <<>>
    /\ gsPat' = <<>>
    /\ gsRepl' = [kind |-> "none"]
    /\ gsMds' = <<>>
    /\ gsRets' = <<>>
    /\ gsInfo' = <<>>
    /\ gsOut' = <<>>
    /\ gsPhase' = "idle"
    /\ UNCHANGED notGsub

GsubNext ==
    \/ strGsub
    \/ strGsubFunc
    \/ GsubReturn

(***************************************************************************)
(* Part XIII.  Instruction encoding, translated from opcode.go.  A word is *)
(* a uint32, kept as its 32 bits.  The fields are written with the         *)
(* values 0, 1, the top bit, the top bit less one, the largest value and   *)
(* alternating bits of their width.                                        *)
(***************************************************************************)
opSizeCode == 6
opSizeA == 8
opSizeB == 9
opSizeC == 9
opSizeBx == 18

RECURSIVE Pow2(_)
Pow2(n) == IF n = 0 THEN 1 ELSE 2 * Pow2(n - 1)

opMaxArgBx == Pow2(opSizeBx) - 1
opMaxArgSbx == opMaxArgBx \div 2

\* A uint32 is its 32 bits, bit 0 the lowest.  uint32(x) of an int x >= 0
\* keeps the low 32 bits of x; the ints of the model are below 2^31.
WordBits == 0 .. 31
uint32(x) == [i \in WordBits |-> IF i > 30 THEN 0 ELSE (x \div Pow2(i)) % 2]

\* int(w) of a word below 2^31.
RECURSIVE IntFrom(_, _)
IntFrom(w, i) == IF i > 30 THEN 0 ELSE w[i] + 2 * IntFrom(w, i + 1)
int(w) == IntFrom(w, 0)

BitAnd(u, v) == [i \in WordBits |-> u[i] * v[i]]
BitOr(u, v) == [i \in WordBits |-> IF u[i] = 1 \/ v[i] = 1 THEN 1 ELSE 0]
Shl(u, n) == [i \in WordBits |-> IF i >= n THEN u[i - n] ELSE 0]
Shr(u, n) == [i \in WordBits |-> IF i + n <= 31 THEN u[i + n] ELSE 0]

\* A hexadecimal literal of eight digits, the highest first.
HexDigits == <<"0", "1", "2", "3", "4", "5", "6", "7",
               "8", "9", "a", "b", "c", "d", "e", "f">>
HexValue(d) == (CHOOSE k \in 1 .. 16 : HexDigits[k] = d) - 1
Hex(digits) ==
    [i \in WordBits |-> (HexValue(digits[8 - (i \div 4)]) \div Pow2(i % 4)) % 2]

\* uint32(arg << n) of an int arg: the shift of its low 32 bits.
ShlInt(arg, n) == Shl(uint32(arg), n)

\* The literals of the field functions.
Lit0x3ffffff == Hex(<<"0", "3", "f", "f", "f", "f", "f", "f">>)
Lit0xfc03ffff == Hex(<<"f", "c", "0", "3", "f", "f", "f", "f">>)
Lit0xfffffe00 == Hex(<<"f", "f", "f", "f", "f", "e", "0", "0">>)
Lit0xfffc01ff == Hex(<<"f", "f", "f", "c", "0", "1", "f", "f">>)
Lit0xfffc0000 == Hex(<<"f", "f", "f", "c", "0", "0", "0", "0">>)
Lit0xff == Hex(<<"0", "0", "0", "0", "0", "0", "f", "f">>)
Lit0x1ff == Hex(<<"0", "0", "0", "0", "0", "1", "f", "f">>)
Lit0x3ffff == Hex(<<"0", "0", "0", "3", "f", "f", "f", "f">>)

opGetOpCode(w) == int(Shr(w, 26))
opSetOpCode(w, opcode) == BitOr(BitAnd(w, Lit0x3ffffff), ShlInt(opcode, 26))
opGetArgA(w) == int(BitAnd(Shr(w, 18), Lit0xff))
opSetArgA(w, arg) ==
    BitOr(BitAnd(w, Lit0xfc03ffff), Shl(BitAnd(uint32(arg), Lit0xff), 18))
opGetArgB(w) == int(BitAnd(w, Lit0x1ff))
opSetArgB(w, arg) ==
    BitOr(BitAnd(w, Lit0xfffffe00), BitAnd(uint32(arg), Lit0x1ff))
opGetArgC(w) == int(BitAnd(Shr(w, 9), Lit0x1ff))
\* Setting C with the mask of B, which clears the B field.
opSetArgCMaskOfB(w, arg) ==
    BitOr(BitAnd(w, Lit0xfffffe00), Shl(BitAnd(uint32(arg), Lit0x1ff), 9))
opSetArgC(w, arg) ==
    BitOr(BitAnd(w, Lit0xfffc01ff), Shl(BitAnd(uint32(arg), Lit0x1ff), 9))
opGetArgBx(w) == int(BitAnd(w, Lit0x3ffff))
opSetArgBx(w, arg) ==
    BitOr(BitAnd(w, Lit0xfffc0000), BitAnd(uint32(arg), Lit0x3ffff))
opGetArgSbx(w) == opGetArgBx(w) - opMaxArgSbx
opSetArgSbx(w, arg) == opSetArgBx(w, arg + opMaxArgSbx)

opCreateABC(op, a, b, c) ==
    opSetArgC(opSetArgB(opSetArgA(opSetOpCode(uint32(0), op), a), b), c)
opCreateABx(op, a, bx) ==
    opSetArgBx(opSetArgA(opSetOpCode(uint32(0), op), a), bx)
opCreateASbx(op, a, sbx) ==
    opSetArgSbx(opSetArgA(opSetOpCode(uint32(0), op), a), sbx)

\* The values written to a field of the given width.
RECURSIVE AltBits(_)
AltBits(width) == IF width <= 0 THEN 0 ELSE 1 + 4 * AltBits(width - 2)
FieldValues(width) ==
    {0, 1, Pow2(width - 1), Pow2(width - 1) - 1, Pow2(width) - 1,
     AltBits(width)}
SbxValues == {bx - opMaxArgSbx : bx \in FieldValues(opSizeBx)}

OpDone(kind, args) == [kind |-> kind, args |-> args]
OpCreates == {"ABC", "ABx", "ASbx"}

InitOp ==
    /\ inst = uint32(0)
    /\ opLast = OpDone("none", <<>>)

CreateABC ==
    /\ opLast.kind = "none"
    /\ \E op \in FieldValues(opSizeCode), a \in FieldValues(opSizeA),
          b \in FieldValues(opSizeB), c \in FieldValues(opSizeC) :
          /\ inst' = opCreateABC(op, a, b, c)
          /\ opLast' = OpDone("ABC", <<op, a, b, c>>)
    /\ UNCHANGED notOp

CreateABx ==
    /\ opLast.kind = "none"
    /\ \E op \in FieldValues(opSizeCode), a \in FieldValues(opSizeA),
          bx \in FieldValues(opSizeBx) :
          /\ inst' = opCreateABx(op, a, bx)
          /\ opLast' = OpDone("ABx", <<op, a, bx>>)
    /\ UNCHANGED notOp

CreateASbx ==
    /\ opLast.kind = "none"
    /\ \E op \in FieldValues(opSizeCode), a \in FieldValues(opSizeA),
          sbx \in SbxValues :
          /\ inst' = opCreateASbx(op, a, sbx)
          /\ opLast' = OpDone("ASbx", <<op, a, sbx>>)
    /\ UNCHANGED notOp

SetOpCode ==
    /\ opLast.kind \in OpCreates
    /\ \E op \in FieldValues(opSizeCode) :
          /\ inst' = opSetOpCode(inst, op)
          /\ opLast' = OpDone("SetOpCode", <<op>>)
    /\ UNCHANGED notOp

SetArgA ==
    /\ opLast.kind \in OpCreates
    /\ \E a \in FieldValues(opSizeA) :
          /\ inst' = opSetArgA(inst, a)
          /\ opLast' = OpDone("SetArgA", <<a>>)
    /\ UNCHANGED notOp

SetArgB ==
    /\ opLast.kind \in OpCreates
    /\ \E b \in FieldValues(opSizeB) :
          /\ inst' = opSetArgB(inst, b)
          /\ opLast' = OpDone("SetArgB", <<b>>)
    /\ UNCHANGED notOp

SetArgC ==
    /\ opLast.kind \in OpCreates
    /\ \E c \in FieldValues(opSizeC) :
          /\ inst' = opSetArgC(inst, c)
          /\ opLast' = OpDone("SetArgC", <<c>>)
    /\ UNCHANGED notOp

SetArgBx ==
    /\ opLast.kind \in OpCreates
    /\ \E bx \in FieldValues(opSizeBx) :
          /\ inst' = opSetArgBx(inst, bx)
          /\ opLast' = OpDone("SetArgBx", <<bx>>)
    /\ UNCHANGED notOp

SetArgSbx ==
    /\ opLast.kind \in OpCreates
    /\ \E sbx \in SbxValues :
          /\ inst' = opSetArgSbx(inst, sbx)
          /\ opLast' = OpDone("SetArgSbx", <<sbx>>)
    /\ UNCHANGED notOp

OpNext ==
    \/ CreateABC
    \/ CreateABx
    \/ CreateASbx
    \/ SetOpCode
    \/ SetArgA
    \/ SetArgB
    \/ SetArgC
    \/ SetArgBx
    \/ SetArgSbx

(***************************************************************************)
(* Part XIV.  tbllib.Clone, translated from tableClone.  A table value is  *)
(* a reference into the heap; a write goes to the table the reference      *)
(* names.                                                                  *)
(***************************************************************************)
ClKeys == {"1", "2", "x"}
ClValues == {LNil, "v1", "v2"}
ClNoWrite == [via |-> "none", key |-> "none", val |-> "none"]

InitClone ==
    /\ clHeap = <<[k \in ClKeys |-> LNil]>>
    /\ clTbl = 1
    /\ clNewtbl = 0
    /\ clLast = ClNoWrite

\* t[key] = val through a reference.
ClRawSet(heap, ref, key, val) ==
    [heap EXCEPT ![ref] = [@ EXCEPT ![key] = val]]

\* The script fills the table before it clones it.
ClFill ==
    /\ clNewtbl = 0
    /\ \E key \in ClKeys, val \in ClValues :
          clHeap' = ClRawSet(clHeap, clTbl, key, val)
    /\ UNCHANGED <<clTbl, clNewtbl, clLast>>
    /\ UNCHANGED notClone

\* tableClone: newtbl := tbl copies the reference, and newtbl is pushed.
tableClone ==
    /\ clNewtbl = 0
    /\ clNewtbl' = clTbl
    /\ UNCHANGED <<clHeap, clTbl, clLast>>
    /\ UNCHANGED notClone

\* After Clone, the script writes through the original or through the clone.
ClWrite ==
    /\ clNewtbl # 0
    /\ \E via \in {"tbl", "newtbl"}, key \in ClKeys, val \in ClValues :
          /\ clHeap' = ClRawSet(clHeap, IF via = "tbl" THEN clTbl ELSE clNewtbl,
                                key, val)
          /\ clLast' = [via |-> via, key |-> key, val |-> val]
    /\ UNCHANGED <<clTbl, clNewtbl>>
    /\ UNCHANGED notClone

CloneNext ==
    \/ ClFill
    \/ tableClone
    \/ ClWrite

(***************************************************************************)
(* Part XV.  The scanner, translated from Scan, skipWhiteSpace,            *)
(* skipComments, scanIdent, scanNumber and scanDecimal.  A source text is  *)
(* a sequence of runes; the texts of the model are made of up to           *)
(* MaxLexLen pieces: letters (one of them outside ASCII), a digit, "_",    *)
(* "-", "/", "*", a newline and the comment brackets.                      *)
(***************************************************************************)
MaxLexLen == 4

LexPieces == {<<"i">>, <<"f">>, <<"e">>, <<"U+00E9">>, <<"1">>, <<"_">>,
              <<"-">>, <<"/">>, <<"*">>, <<"\n">>,
              <<"/", "*">>, <<"*", "/">>}

RECURSIVE LexTexts(_)
LexTexts(n) ==
    IF n = 0 THEN {<<>>}
    ELSE LET shorter == LexTexts(n - 1)
         IN  shorter \cup {t \o piece : t \in shorter, piece \in LexPieces}

\* What Next returns at the end of the text, what Peek returns there, and
\* what writeRune writes for the former.
EOFRune == "EOF"
NulRune == "NUL"
RuneError == "U+FFFD"

unicodeIsLetter(ch) == ch \in {"i", "f", "e", "U+00E9"}
unicodeIsDigit(ch) == ch \in {"1"}
unicodeIsSpace(ch) == ch \in {" ", "\n"}
isDecimal(ch) == ch \in {"1"}
isIdent(ch, pos) ==
    ch = "_" \/ unicodeIsLetter(ch) \/ (unicodeIsDigit(ch) /\ pos > 0)

reservedWords == [str \in {<<"i", "f">>} |-> "TIf"]

\* sc.Next() and sc.Peek() with the reader at offset p.
ScNext(input, p) ==
    IF p < Len(input) THEN [ch |-> input[p + 1], pos |-> p + 1]
    ELSE [ch |-> EOFRune, pos |-> p]
ScPeek(input, p) == IF p < Len(input) THEN input[p + 1] ELSE NulRune
writeRune(buf, r) == Append(buf, IF r = EOFRune THEN RuneError ELSE r)

RECURSIVE skipWhiteSpace(_, _)
skipWhiteSpace(input, p) ==
    LET n == ScNext(input, p)
    IN  IF unicodeIsSpace(n.ch) THEN skipWhiteSpace(input, n.pos) ELSE n

\* The loop of the multi-line branch of skipComments.
RECURSIVE skipMultiLine(_, _)
skipMultiLine(input, p) ==
    LET n == ScNext(input, p)
    IN  IF n.ch = "*" /\ ScPeek(input, n.pos) = "/"
        THEN [ok |-> TRUE, pos |-> ScNext(input, n.pos).pos]
        ELSE IF n.ch = EOFRune THEN [ok |-> FALSE, pos |-> n.pos]
        ELSE skipMultiLine(input, n.pos)

\* The loop of the single-line branch of skipComments.
RECURSIVE skipLine(_, _, _)
skipLine(input, ch, p) ==
    IF ch = "\n" \/ ch = EOFRune THEN [ok |-> TRUE, pos |-> p]
    ELSE LET n == ScNext(input, p) IN skipLine(input, n.ch, n.pos)

skipComments(input, ch, p) ==
    IF ch = "/" /\ ScPeek(input, p) = "*"
    THEN skipMultiLine(input, ScNext(input, p).pos)
    ELSE skipLine(input, ch, p)

\* The loop of scanIdent and of scanDecimal: buf and the reader offset.
RECURSIVE scanIdentLoop(_, _, _)
scanIdentLoop(input, buf, p) ==
    IF isIdent(ScPeek(input, p), 1)
    THEN LET n == ScNext(input, p)
         IN  scanIdentLoop(input, writeRune(buf, n.ch), n.pos)
    ELSE [buf |-> buf, pos |-> p]

scanIdent(input, ch, buf, p) == scanIdentLoop(input, writeRune(buf, ch), p)

RECURSIVE scanDecimalLoop(_, _, _)
scanDecimalLoop(input, buf, p) ==
    IF isDecimal(ScPeek(input, p))
    THEN LET n == ScNext(input, p)
         IN  scanDecimalLoop(input, writeRune(buf, n.ch), n.pos)
    ELSE [buf |-> buf, pos |-> p]

scanDecimal(input, ch, buf, p) == scanDecimalLoop(input, writeRune(buf, ch), p)

\* The exponent of scanNumber: after "e" and a sign the next rune is read
\* and written whatever it is.
scanExponent(input, mant) ==
    IF ScPeek(input, mant.pos) \in {"e", "E"}
    THEN LET e == ScNext(input, mant.pos)
             b1 == writeRune(mant.buf, e.ch)
             signed == ScPeek(input, e.pos) \in {"-", "+"}
             s == IF signed THEN ScNext(input, e.pos) ELSE e
             b2 == IF signed THEN writeRune(b1, s.ch) ELSE b1
             d == ScNext(input, s.pos)
         IN  scanDecimal(input, d.ch, b2, d.pos)
    ELSE mant

\* scanNumber for a first digit other than 0 and a text without ".".
scanNumber(input, ch, buf, p) == scanExponent(input, scanDecimal(input, ch, buf, p))

Token(type, str, at) == [type |-> type, str |-> str, at |-> at]

\* Scan: the token from offset p on, the new offset and whether an error
\* was returned.
RECURSIVE Scan(_, _)
Scan(input, p) ==
    LET w == skipWhiteSpace(input, p)
        ch == w.ch
        at == w.pos - 1
    IN  IF isIdent(ch, 0)
        THEN LET r == scanIdent(input, ch, <<>>, w.pos)
             IN  [tok |-> Token(IF r.buf \in DOMAIN reservedWords
                                THEN reservedWords[r.buf] ELSE "TIdent",
                                r.buf, at),
                  pos |-> r.pos, err |-> FALSE]
        ELSE IF isDecimal(ch)
        THEN LET r == scanNumber(input, ch, <<>>, w.pos)
             IN  [tok |-> Token("TNumber", r.buf, at), pos |-> r.pos,
                  err |-> FALSE]
        ELSE IF ch = EOFRune
        THEN [tok |-> Token("EOF", <<>>, w.pos), pos |-> w.pos, err |-> FALSE]
        ELSE IF ch = "-"
        THEN [tok |-> Token("TSub", <<ch>>, at), pos |-> w.pos, err |-> FALSE]
        ELSE IF ch = "*"
        THEN [tok |-> Token("TMul", <<ch>>, at), pos |-> w.pos, err |-> FALSE]
        ELSE IF ch = "/"
        THEN IF ScPeek(input, w.pos) \in {"/", "*"}
             THEN LET c == skipComments(input, ch, w.pos)
                  IN  IF c.ok THEN Scan(input, c.pos)
                      ELSE [tok |-> Token("", <<>>, at), pos |-> c.pos,
                            err |-> TRUE]
             ELSE [tok |-> Token("TDiv", <<ch>>, at), pos |-> w.pos,
                   err |-> FALSE]
        ELSE [tok |-> Token("", <<ch>>, at), pos |-> w.pos, err |-> TRUE]

InitLex ==
    /\ lxInput = <<>>
    /\ lxPos = 0
    /\ lxTokens = <<>>
    /\ lxPhase = "idle"

\* NewScanner(reader, source).
NewScanner ==
    /\ lxPhase = "idle"
    /\ \E input \in LexTexts(MaxLexLen) : lxInput' = input
    /\ lxPos' = 0
    /\ lxTokens' = <<>>
    /\ lxPhase' = "scanning"
    /\ UNCHANGED notLex

\* One call of scanner.Scan(lexer).
ScanToken ==
    /\ lxPhase = "scanning"
    /\ LET r == Scan(lxInput, lxPos)
       IN  /\ lxPos' = r.pos
           /\ lxTokens' = IF r.err \/ r.tok.type = "EOF" THEN lxTokens
                          ELSE Append(lxTokens, r.tok)
           /\ lxPhase' = IF r.err THEN "error"
                         ELSE IF r.tok.type = "EOF" THEN "eof"
                         ELSE "scanning"
    /\ UNCHANGED lxInput
    /\ UNCHANGED notLex

LexNext ==
    \/ NewScanner
    \/ ScanToken

(***************************************************************************)
(* Part XVI.  Require, translated from loRequire.  A script (the main      *)
(* chunk, or the module function that is executing) calls Require; the     *)
(* module function of a name returns a value, raises an error or calls     *)
(* Require itself.  An error unwinds the activations of loRequire it       *)
(* passes, until a protected call of the script catches it.                *)
(***************************************************************************)
MaxLoads == 2        \* calls of the module function of one name

ReqNil == "nil"
ReqFalse == "false"
ReqTrue == "true"
\* var loopdetection = &LUserData{}
loopdetection == "loopdetection"
\* What a module function may return: nil, a boolean or one of two tables.
ModuleValues == {ReqNil, ReqFalse, ReqTrue, "table1", "table2"}

\* The names a script requires: two modules that a loader finds, one that no
\* loader finds.
ReqNames == {"a", "b", "missing"}

\* The functions of _LOADERS: each answers a name with a module function
\* (*LFunction) or with a message (LString); the table ends with nil.
ReqLoaders == << [a |-> "function", b |-> "message", missing |-> "message"],
                 [a |-> "message", b |-> "function", missing |-> "message"] >>

ReqNoErr == "none"
MsgLoop == "loop or previous error loading module"
MsgNotFound == "module not found"
MsgModule == "error raised by the module"

\* LVAsBool
ReqLVAsBool(lv) == lv \notin {ReqNil, ReqFalse}

\* The loop of loRequire over the loaders from index i: TRUE when one of them
\* returns a function, FALSE when the nil that ends the table is reached.
RECURSIVE loaderFound(_, _)
loaderFound(name, i) ==
    IF i > Len(ReqLoaders) THEN FALSE
    ELSE IF ReqLoaders[i][name] = "function" THEN TRUE
    ELSE loaderFound(name, i + 1)

ReqOp(op, name, result) == [op |-> op, name |-> name, result |-> result]

InitReq ==
    /\ rqLoaded = [n \in ReqNames |-> ReqNil]
    /\ rqStack = <<>>
    /\ rqRaised = ReqNoErr
    /\ rqCalls = [n \in ReqNames |-> 0]
    /\ rqFirst = [n \in ReqNames |-> "none"]
    /\ rqLast = ReqOp("none", "none", "none")

\* loRequire up to the call of the module function: the cached value, the
\* error of a name that carries the sentinel, the error of a name no loader
\* finds, or the sentinel is stored and the module function is called.
loRequire(name) ==
    LET lv == rqLoaded[name] IN
    IF ReqLVAsBool(lv)
      THEN IF lv = loopdetection
             THEN /\ rqRaised' = MsgLoop
                  /\ rqLast' = ReqOp("Require", name, MsgLoop)
                  /\ UNCHANGED <<rqLoaded, rqStack, rqCalls, rqFirst>>
             ELSE /\ rqLast' = ReqOp("Require", name, lv)
                  /\ UNCHANGED <<rqLoaded, rqStack, rqRaised, rqCalls, rqFirst>>
      ELSE IF ~loaderFound(name, 1)
             THEN /\ rqRaised' = MsgNotFound
                  /\ rqLast' = ReqOp("Require", name, MsgNotFound)
                  /\ UNCHANGED <<rqLoaded, rqStack, rqCalls, rqFirst>>
             ELSE /\ rqLoaded' = [rqLoaded EXCEPT ![name] = loopdetection]
                  /\ rqStack' = Append(rqStack, name)
                  /\ rqCalls' = [rqCalls EXCEPT ![name] = @ + 1]
                  /\ rqLast' = ReqOp("Load", name, "none")
                  /\ UNCHANGED <<rqRaised, rqFirst>>

\* The value loRequire stores in _LOADED and the value it pushes, after the
\* module function returned modRet (the part of loRequire below loopbreak).
loRequireResult(modRet, modv) ==
    IF modRet # ReqNil /\ modv = loopdetection THEN [loaded |-> modRet, push |-> modRet]
    ELSE IF modv = loopdetection THEN [loaded |-> ReqTrue, push |-> ReqTrue]
    ELSE [loaded |-> modv, push |-> modv]

\* A Require(name) call of the executing script.
Require ==
    /\ rqRaised = ReqNoErr
    /\ \E name \in ReqNames :
         /\ rqCalls[name] < MaxLoads
         /\ loRequire(name)
    /\ UNCHANGED notReq

\* The module function of the innermost load returns modRet, and loRequire
\* returns to the script that called it.
ModuleReturn ==
    /\ rqRaised = ReqNoErr
    /\ rqStack # <<>>
    /\ \E modRet \in ModuleValues :
         LET name == rqStack[Len(rqStack)]
             r == loRequireResult(modRet, rqLoaded[name])
         IN  /\ rqLoaded' = [rqLoaded EXCEPT ![name] = r.loaded]
             /\ rqFirst' = IF rqFirst[name] = "none"
                             THEN [rqFirst EXCEPT ![name] = r.push]
                             ELSE rqFirst
             /\ rqLast' = ReqOp("Loaded", name, r.push)
    /\ rqStack' = SubSeq(rqStack, 1, Len(rqStack) - 1)
    /\ UNCHANGED <<rqRaised, rqCalls>>
    /\ UNCHANGED notReq

\* The module function of the innermost load raises an error.
ModuleError ==
    /\ rqRaised = ReqNoErr
    /\ rqStack # <<>>
    /\ rqRaised' = MsgModule
    /\ rqLast' = ReqOp("Error", rqStack[Len(rqStack)], MsgModule)
    /\ UNCHANGED <<rqLoaded, rqStack, rqCalls, rqFirst>>
    /\ UNCHANGED notReq

\* The error leaves the executing module function and the loRequire that
\* called it: the activation is gone, _LOADED keeps what it holds.
ReqUnwind ==
    /\ rqRaised # ReqNoErr
    /\ rqStack # <<>>
    /\ rqStack' = SubSeq(rqStack, 1, Len(rqStack) - 1)
    /\ rqLast' = ReqOp("Unwind", rqStack[Len(rqStack)], rqRaised)
    /\ UNCHANGED <<rqLoaded, rqRaised, rqCalls, rqFirst>>
    /\ UNCHANGED notReq

\* A protected call of the executing script (or the host, below the main
\* chunk) catches the error.
ReqCatch ==
    /\ rqRaised # ReqNoErr
    /\ rqRaised' = ReqNoErr
    /\ rqLast' = ReqOp("Catch", "none", rqRaised)
    /\ UNCHANGED <<rqLoaded, rqStack, rqCalls, rqFirst>>
    /\ UNCHANGED notReq

ReqNext ==
    \/ Require
    \/ ModuleReturn
    \/ ModuleError
    \/ ReqUnwind
    \/ ReqCatch

(***************************************************************************)
(* Part XVII.  strlib.GMatch, translated from strGmatch and strGmatchIter. *)
(* The matches are those of pm.Find as Part XII computes them; a match is  *)
(* the sequence of its capture offsets, the whole match first.  The script *)
(* calls the iterator with the iterator data as often as it likes.         *)
(***************************************************************************)
MaxIterCalls == 5    \* calls of the iterator on one strMatchData

GmNone == [kind |-> "none", vals |-> <<>>]
\* return 0
GmNothing == [kind |-> "nothing", vals |-> <<>>]
\* The values one call pushed and returned.
GmValues(vals) == [kind |-> "values", vals |-> vals]
\* matches[idx] with idx beyond the slice: the run-time panic "index out of
\* range", which the script observes as an error.
GmPanic == [kind |-> "panic", vals |-> <<>>]

\* MatchData.CaptureLength
CaptureLength(match) == Len(match)
\* str[match.Capture(i):match.Capture(i+1)], i counted from 0 as in the code.
GmCapture(str, match, i) == SubSeq(str, match[i + 1] + 1, match[i + 2])

InitGmatch ==
    /\ gmStr = <<>>
    /\ gmPos = 0
    /\ gmMatches = <<>>
    /\ gmOut = GmNone
    /\ gmPhase = "idle"

\* strGmatch: ud.Value = &strMatchData{str, 0, mds}.
strGmatch ==
    /\ gmPhase = "idle"
    /\ \E str \in GsBytesOf(GsStrBytes), pattern \in GsBytesOf(GsPatBytes) :
         /\ gmStr' = str
         /\ gmMatches' = pmFindAll(pattern, str, 0)
    /\ gmPos' = 0
    /\ gmOut' = GmNone
    /\ gmPhase' = "iterating"
    /\ UNCHANGED notGm

\* What strGmatchIter returns for the strMatchData (str, idx, matches).
strGmatchIterResult(str, matches, idx) ==
    IF idx = Len(matches) THEN GmNothing
    ELSE IF idx > Len(matches) THEN GmPanic
    ELSE LET match == matches[idx + 1] IN
         IF CaptureLength(match) = 2
           THEN GmValues(<<GmCapture(str, match, 0)>>)
           ELSE GmValues([k \in 1 .. (CaptureLength(match) \div 2 - 1) |->
                             GmCapture(str, match, 2 * k)])

\* One call of the iterator: idx := md.pos; md.pos += 1; then the result.
strGmatchIter ==
    /\ gmPhase = "iterating"
    /\ gmPos < MaxIterCalls
    /\ gmPos' = gmPos + 1
    /\ gmOut' = strGmatchIterResult(gmStr, gmMatches, gmPos)
    /\ UNCHANGED <<gmStr, gmMatches, gmPhase>>
    /\ UNCHANGED notGm

\* The script drops the iterator.
GmatchDrop ==
    /\ gmPhase = "iterating"
    /\ gmStr' = <<>>
    /\ gmPos' = 0
    /\ gmMatches' = <<>>
    /\ gmOut' = GmNone
    /\ gmPhase' = "idle"
    /\ UNCHANGED notGm

GmatchNext ==
    \/ strGmatch
    \/ strGmatchIter
    \/ GmatchDrop

(***************************************************************************)
(* Part XVIII.  The default time unit, translated from timeUnix,           *)
(* timeSleep and timeSetDefaultUnit (timelib), httpSetTimeout (httplib)    *)
(* and wsSetTimeout (wslib).  Durations are counted in milliseconds.       *)
(***************************************************************************)
MaxTimeLength == 2   \* the lengths a script passes to SetTimeout and Sleep

\* var timeUnit = map[string]time.Duration{...}
timeUnit == [h |-> 3600000, m |-> 60000, s |-> 1000, ms |-> 1]

\* The unit arguments a script passes: the supported units, two strings that
\* are no unit, or no argument.
Omitted == "<omitted>"
UnitArgs == DOMAIN timeUnit \cup {"d", "sec", Omitted}

\* L.OptString(n, d)
OptString(arg, d) == IF arg = Omitted THEN d ELSE arg

MsgInvalidUnit == "invalid time unit"
\* What a call returned: values, or an error raised in the script.
TmReturn(vals) == [kind |-> "return", vals |-> vals]
TmRaise(msg) == [kind |-> "raise", vals |-> <<msg>>]
TmCall(fn, arg, out) == [fn |-> fn, arg |-> arg, out |-> out]

InitTime ==
    /\ defaultTimeUnit = "s"
    /\ requestTimeout = 30 * timeUnit["s"]
    /\ wsDialTimeout = 60 * timeUnit["s"]
    /\ tmLast = TmCall("none", Omitted, TmReturn(<<>>))

\* timeSetDefaultUnit: the message is pushed for a string that is no unit,
\* the default unit is assigned, and no value is returned (return 0).
timeSetDefaultUnit ==
    /\ \E arg \in UnitArgs :
         LET unit == OptString(arg, "s") IN
         /\ defaultTimeUnit' = unit
         /\ tmLast' = TmCall("SetDefaultUnit", arg, TmReturn(<<>>))
    /\ UNCHANGED <<requestTimeout, wsDialTimeout>>
    /\ UNCHANGED notTime

\* timeUnix: the time stamp in the unit, or nil and the message.
timeUnix ==
    /\ \E arg \in UnitArgs :
         LET unit == OptString(arg, defaultTimeUnit) IN
         tmLast' = TmCall("Unix", arg,
                          IF unit \in DOMAIN timeUnit THEN TmReturn(<<"number">>)
                          ELSE TmReturn(<<"nil", MsgInvalidUnit>>))
    /\ UNCHANGED <<defaultTimeUnit, requestTimeout, wsDialTimeout>>
    /\ UNCHANGED notTime

\* timeSleep: sleeps and returns nothing, or returns the message.
timeSleep ==
    /\ \E arg \in UnitArgs :
         LET unit == OptString(arg, defaultTimeUnit) IN
         tmLast' = TmCall("Sleep", arg,
                          IF unit \in DOMAIN timeUnit THEN TmReturn(<<>>)
                          ELSE TmReturn(<<MsgInvalidUnit>>))
    /\ UNCHANGED <<defaultTimeUnit, requestTimeout, wsDialTimeout>>
    /\ UNCHANGED notTime

\* httpSetTimeout: raises the error for a string that is no unit, else sets
\* requestTimeout.
httpSetTimeout ==
    /\ \E timelength \in 1 .. MaxTimeLength, arg \in UnitArgs :
         LET timeunit == OptString(arg, defaultTimeUnit) IN
         IF timeunit \notin DOMAIN timeUnit
           THEN /\ tmLast' = TmCall("http.SetTimeout", arg, TmRaise(MsgInvalidUnit))
                /\ UNCHANGED requestTimeout
           ELSE /\ requestTimeout' = timelength * timeUnit[timeunit]
                /\ tmLast' = TmCall("http.SetTimeout", arg, TmReturn(<<>>))
    /\ UNCHANGED <<defaultTimeUnit, wsDialTimeout>>
    /\ UNCHANGED notTime

\* wsSetTimeout: as httpSetTimeout, for wsDialTimeout.
wsSetTimeout ==
    /\ \E timelength \in 1 .. MaxTimeLength, arg \in UnitArgs :
         LET timeunit == OptString(arg, defaultTimeUnit) IN
         IF timeunit \notin DOMAIN timeUnit
           THEN /\ tmLast' = TmCall("ws.SetTimeout", arg, TmRaise(MsgInvalidUnit))
                /\ UNCHANGED wsDialTimeout
           ELSE /\ wsDialTimeout' = timelength * timeUnit[timeunit]
                /\ tmLast' = TmCall("ws.SetTimeout", arg, TmReturn(<<>>))
    /\ UNCHANGED <<defaultTimeUnit, requestTimeout>>
    /\ UNCHANGED notTime

TimeNext ==
    \/ timeSetDefaultUnit
    \/ timeUnix
    \/ timeSleep
    \/ httpSetTimeout
    \/ wsSetTimeout

Init == InitCo /\ InitVM /\ InitPCall /\ InitTbl /\ InitNextTbl /\ InitLim /\ InitFor /\ InitJson /\ InitPack /\ InitToNum
        /\ InitFind /\ InitGsub /\ InitOp /\ InitClone /\ InitLex /\ InitReq /\ InitGmatch /\ InitTime

Next == CoNext

\* The coroutine library.
Spec == Init /\ [][Next]_vars

\* The instructions of one thread.
SpecVM == Init /\ [][VMNext]_vars

\* Protected calls.
SpecPCall == Init /\ [][PCallNext]_vars

\* Tables and metatables.
SpecTbl == Init /\ [][TblNext]_vars

\* The traversal of a table.
SpecNext == Init /\ [][NextNext]_vars

\* The stack limits.
SpecLim == Init /\ [][LimNext]_vars

\* The numeric for loop: a loop that can take a step takes it.
SpecFor == Init /\ [][ForNext]_vars /\ WF_vars(OP_FORLOOP)

\* The JSON round trip.
SpecJson == Init /\ [][JsonNext]_vars

\* Pack and Unpack.
SpecPack == Init /\ [][PackNext]_vars

\* ToString and ToNumber.
SpecToNum == Init /\ [][ToNumNext]_vars

\* string.find.
SpecFind == Init /\ [][FindNext]_vars

\* string.gsub.
SpecGsub == Init /\ [][GsubNext]_vars

\* Instruction words.
SpecOp == Init /\ [][OpNext]_vars

\* tbllib.Clone.
SpecClone == Init /\ [][CloneNext]_vars

\* The scanner.
SpecLex == Init /\ [][LexNext]_vars
SpecReq == Init /\ [][ReqNext]_vars
SpecGmatch == Init /\ [][GmatchNext]_vars
SpecTime == Init /\ [][TimeNext]_vars

(***************************************************************************)
(* Claims about the coroutine library.                                     *)
(***************************************************************************)
Coroutines == 1 .. MaxThreads

\* The step is the call Resume(T) of the running script.
IsResumeOf(T) == lastOp'.op = "Resume" /\ lastOp'.th = T

\* C1: Resume(T) fails without transferring control to T whenever T is
\* running, normal or dead: control stays with the caller, T executes no
\* instruction (its frames change by nothing but the caller's own call
\* instruction), T keeps its status, and a thread that is not wrapped gets
\* (false, message).
C1_ResumeOfNonSuspendedFails ==
    [][\A T \in Coroutines :
          (IsResumeOf(T) /\ Status(T) \in {"running", "normal", "dead"})
          => /\ CurrentThread' = CurrentThread
             /\ Status(T)' = Status(T)
             /\ stack'[T] = Fetch(stack, CurrentThread)[T]
             /\ ~wrapped[T] => (ret'.to = CurrentThread /\ ret'.ok = FALSE)]_vars

\* C2: exactly one thread has status running, and it is the current thread.
C2_ExactlyOneRunning ==
    /\ Cardinality({t \in Created : Status(t) = "running"}) = 1
    /\ CurrentThread \in Created
    /\ Status(CurrentThread) = "running"

\* A coroutine returned from its top frame to a resumer that is a coroutine too.
C2_Witness ==
    /\ lastOp.op = "Return"
    /\ lastOp.by # MainThread
    /\ CurrentThread # MainThread
    /\ Dead[lastOp.by]

ResumeOfDead(msg) ==
    \A T \in Coroutines :
        (IsResumeOf(T) /\ Status(T) = "dead")
        => /\ Status(T)' = "dead"
           /\ CurrentThread' = CurrentThread
           /\ Status(CurrentThread)' = "running"
           /\ IF wrapped[T]
                THEN raised' = msg /\ ret' = ret
                ELSE raised' = NoErr /\ ret' = Result(CurrentThread, "return", FALSE, msg)

\* C4 as stated: resuming a dead thread returns
\* (false, "cannot resume dead thread"), or raises when the thread is wrapped;
\* the thread stays dead and the resumer stays running.
C4_ResumeDeadAsStated == [][ResumeOfDead("cannot resume dead thread")]_vars

\* C4, amended: the message is "can not resume a dead thread".
C4_ResumeDead == [][ResumeOfDead(MsgDead)]_vars

\* A dead thread that is not wrapped was resumed.
C4_Witness ==
    /\ lastOp.op = "Resume"
    /\ lastOp.th \in Coroutines
    /\ Dead[lastOp.th]
    /\ ~wrapped[lastOp.th]
    /\ ret = Result(lastOp.by, "return", FALSE, MsgDead)

\* C5: Yield in the main thread raises an error: the main thread stays the
\* current thread and no thread changes its status.
C5_YieldInMainRaises ==
    [][(lastOp'.op = "Yield" /\ CurrentThread = MainThread /\ Parent[MainThread] = NoThread)
          => /\ raised' = MsgYield
             /\ CurrentThread' = MainThread
             /\ \A t \in Threads : Status(t)' = Status(t)]_vars

\* The main thread called Yield while a coroutine was suspended.
C5_Witness ==
    /\ lastOp.op = "Yield"
    /\ lastOp.by = MainThread
    /\ raised = MsgYield
    /\ \E t \in Coroutines : t <= nthreads /\ isStarted(t) /\ Status(t) = "suspended"

\* C6: an error that leaves a coroutine's top frame kills the coroutine and
\* returns control to its resumer: (false, error value) when the coroutine is
\* not wrapped, the error raised again in the resumer when it is.
C6_UncaughtErrorKills ==
    [][\A t \in Coroutines :
          (lastOp'.op = "Unwind" /\ lastOp'.by = t)
          => \E P \in Threads :
                /\ P = ResumerOf(t)
                /\ Status(t)' = "dead"
                /\ CurrentThread' = P
                /\ Status(P)' = "running"
                /\ IF wrapped[t]
                     THEN raised' = raised /\ ret' = ret
                     ELSE raised' = NoErr
                          /\ ret' = Result(P, "return", FALSE, raised)]_vars

\* The error of a wrapped coroutine is being raised in its resumer.
C6_Witness ==
    /\ lastOp.op = "Unwind"
    /\ lastOp.by \in Coroutines
    /\ wrapped[lastOp.by]
    /\ Dead[lastOp.by]
    /\ raised = MsgUser
    /\ CurrentThread = lastOp.th

\* C7: the thread Create(fn) returns is suspended and has executed nothing:
\* one frame, for fn, at program counter 0, with no argument and no parent
\* frame, and no current frame; the creating thread stays running.
C7_CreateSuspended ==
    lastOp.op = "Create"
    => LET th == lastOp.th IN
       /\ Status(th) = "suspended"
       /\ Len(stack[th]) = 1
       /\ stack[th][1].Fn = lastOp.arg
       /\ stack[th][1].Pc = 0
       /\ stack[th][1].NArgs = 0
       /\ stack[th][1].Parent = NoFrame
       /\ ~isStarted(th)
       /\ CurrentThread = lastOp.by
       /\ Status(lastOp.by) = "running"

\* A coroutine created a thread.
C7_Witness ==
    /\ lastOp.op = "Create"
    /\ lastOp.by # MainThread
    /\ lastOp.th = 2

(***************************************************************************)
(* Claims about closures, upvalues and call frames.                        *)
(***************************************************************************)
Slots == 0 .. RegSize - 1

\* C8: every stack slot has at most one open upvalue cell pointing to it, the
\* open cells are exactly those linked in the open list, each once, and a
\* CLOSURE makes a new cell only for a slot that had no open cell.
C8_OneOpenCellPerSlot ==
    /\ \A idx \in Slots : Cardinality(OpenAt(cells, idx)) <= 1
    /\ \A c \in 1 .. Len(cells) :
          cells[c].open <=> (\E i \in 1 .. Len(uvcache) : uvcache[i] = c)
    /\ \A i, j \in 1 .. Len(uvcache) : uvcache[i] = uvcache[j] => i = j

\* Two closures are bound to the same open cell.
C8_Witness ==
    \E f, g \in 1 .. Len(closures) :
        /\ f # g
        /\ \E i \in 1 .. Len(closures[f]), j \in 1 .. Len(closures[g]) :
              /\ closures[f][i] = closures[g][j]
              /\ cells[closures[f][i]].open
    /\ vmOp.op = "CLOSURE"

\* C9: after RETURN, TAILCALL, an error unwind or CLOSE, no open cell points
\* at or above the base of the frame that was popped (the register CLOSE
\* names), and every cell the instruction closed holds the value its slot had.
C9_PoppedFramesHaveNoOpenCell ==
    [][vmOp'.op \in {"RETURN", "TAILCALL", "ERROR", "CLOSE"}
          => /\ \A c \in 1 .. Len(cells') :
                   cells'[c].open => cells'[c].index < vmOp'.idx
             /\ \A c \in 1 .. Len(cells) :
                   (cells[c].open /\ cells[c].index >= vmOp'.idx)
                   => /\ ~cells'[c].open
                      /\ cells'[c].value = reg[cells[c].index]]_vars

\* A frame returned while a closure held a cell on one of its locals: the
\* cell is closed on the local's value, and another cell stays open below.
C9_Witness ==
    /\ vmOp.op = "RETURN"
    /\ Len(frames) >= 1
    /\ \E c \in 1 .. Len(cells) :
          ~cells[c].open /\ cells[c].index >= vmOp.idx /\ cells[c].value \in RegValues
    /\ \E c \in 1 .. Len(cells) : cells[c].open

\* C10: a TAILCALL to a script closure leaves the depth of the call-frame
\* stack as it is, and the frame it installs has the base of the frame it
\* replaces.
C10_TailCallKeepsDepth ==
    [][vmOp'.op = "TAILCALL"
          => /\ Len(frames') = Len(frames)
             /\ frames'[Len(frames')].Base = Cf.Base
             /\ SubSeq(frames', 1, Len(frames) - 1) = SubSeq(frames, 1, Len(frames) - 1)]_vars

\* A chain of three tail calls ran in the one frame of the thread.
C10_Witness ==
    /\ vmOp.op = "TAILCALL"
    /\ Len(frames) = 1
    /\ Cf.TailCall = 3

(***************************************************************************)
(* Claims about protected calls.                                           *)
(***************************************************************************)
\* C11: a pcall never lets an error raised under it leave the thread: an
\* error is only uncaught when no pcall / xpcall frame is open; when a pcall
\* returns, no error is in flight, it hands back (false, the error value
\* raised) or (true, the results of f), and the frame stack is as deep as it
\* was when the pcall was called.
C11_PCallNeverPropagates ==
    [][ /\ pOp'.op = "uncaught" => ProtectionPoint(pstack) = 0
        /\ (perr # NoErr /\ ProtectionPoint(pstack) > 0) => perr' = NoErr
        /\ pOp'.op = "pcall" =>
              /\ perr' = NoErr
              /\ ~pHalted'
              /\ Len(pstack') = pOp'.frame.depth
              /\ \/ pret'.ok = TRUE /\ pOp'.err = NoErr /\ pret'.val \in CallResults
                 \/ /\ pret'.ok = FALSE
                    /\ pOp'.frame.fn = "pcall" /\ perr # NoErr => pret'.val = perr
      ]_vars

\* A pcall that called a function which called another one has caught the
\* error raised two frames above it.
C11_Witness ==
    /\ pOp.op = "pcall"
    /\ pOp.frame.fn = "pcall"
    /\ pOp.err \in ErrValues
    /\ pret = PRet(FALSE, pOp.err)
    /\ Len(pstack) = pOp.frame.depth
    /\ pOp.frame.depth >= 2

(***************************************************************************)
(* Claims about metatables and the index operation.                        *)
(***************************************************************************)
\* The metatable of o has a __metatable field.
Protected(o) ==
    /\ tbl[o].Metatable # LNil
    /\ RawGetString(tbl, tbl[o].Metatable, "__metatable") # LNil

\* C12: when the metatable of an object has a __metatable field, a
\* SetMetatable on the object raises and leaves its metatable as it was, and
\* a GetMetatable on it returns the value of the field.
C12_ProtectedMetatable ==
    [][ \A o \in Tables : Protected(o) /\ tOp'.obj = o =>
          /\ tOp'.op = "SetMetatable" =>
                tret'.err # NoErr /\ tbl'[o].Metatable = tbl[o].Metatable
          /\ tOp'.op = "GetMetatable" =>
                tret'.val = RawGetString(tbl, tbl[o].Metatable, "__metatable")
      ]_vars

\* C13: an index operation ends after at most MaxTableGetLoop lookups, with a
\* value or, when the chain of __index tables did not end, with an error.
C13_IndexTerminates ==
    [][ tOp'.op = "Index" =>
          /\ tret'.loops \in 0 .. MaxTableGetLoop
          /\ tret'.err \in {NoErr, MsgGetLoop}
          /\ tret'.err = MsgGetLoop <=> tret'.loops = MaxTableGetLoop
      ]_vars

\* A table that is its own metatable, with itself as __index, was indexed
\* with a key it does not have: the lookup stopped with the error.
C13_Witness ==
    /\ tOp.op = "Index"
    /\ tbl[tOp.obj].Metatable = tOp.obj
    /\ RawGetString(tbl, tOp.obj, "__index") = tOp.obj
    /\ RawGetString(tbl, tOp.obj, tOp.arg) = LNil
    /\ tret = TRet(LNil, MsgGetLoop, MaxTableGetLoop)

(***************************************************************************)
(* Claims about the traversal of a table.                                  *)
(***************************************************************************)
\* The value of a key, and the entries of the table.
NValueOf(key) == IF InArray(narray, key) THEN narray[key.n] ELSE ndict[key]
NEntries == {<<key, NValueOf(key)>> : key \in {k \in NKeys : NValueOf(k) # LNil}}

\* C14: a traversal from the nil key never returns a nil key and never
\* returns a pair twice, and when Next returns nil the pairs returned are the
\* pairs of the table with a non-nil value, each exactly once.
C14_NextVisitsEachPairOnce ==
    /\ \A i \in DOMAIN nvisited : nvisited[i][1] # NilKey /\ nvisited[i] \in NEntries
    /\ \A i, j \in DOMAIN nvisited : nvisited[i][1] = nvisited[j][1] => i = j
    /\ nphase = "done" => {nvisited[i] : i \in DOMAIN nvisited} = NEntries

\* A traversal has ended on a table with entries in the array part and in
\* the hash part; it returned at least three pairs, one with a string key.
C14_Witness ==
    /\ nphase = "done"
    /\ Len(nvisited) >= 3
    /\ Len(narray) >= 1
    /\ \E i \in DOMAIN nkeys : ndict[nkeys[i]] # LNil
    /\ \E i \in DOMAIN nvisited : nvisited[i][1].t = "string"
    /\ Cardinality(NEntries) = Len(nvisited)

(***************************************************************************)
(* Claims about the stack limits.                                          *)
(***************************************************************************)
\* C15: the call-frame stack never holds more than CallStackSize frames and
\* the register stack never more than RegistrySize registers, allocated in
\* steps of RegistryGrowStep; a call that would exceed a limit raises a
\* stack error and pushes nothing.
C15_StacksStayWithinLimits ==
    [][ /\ ldepth' <= CallStackSize
        /\ lregTop' <= lregCap' /\ lregCap' <= RegistrySize
        /\ lregCap' % RegistryGrowStep = 0
        /\ (lerr = NoErr /\ lslots # 0 /\ ldepth' >= ldepth
              /\ (ldepth = CallStackSize \/ lregTop + lslots > RegistrySize))
             => /\ lerr' \in {MsgCallOverflow, MsgRegOverflow}
                /\ ldepth' = ldepth /\ lregTop' = lregTop
      ]_vars

\* A call was refused with the call-frame stack full.
C15_Witness ==
    /\ lerr = MsgCallOverflow
    /\ ldepth = CallStackSize
    /\ lregTop < RegistrySize

(***************************************************************************)
(* Claims about the numeric for loop.                                      *)
(***************************************************************************)
\* C16: a numeric for with step 0 raises an error; with a positive step and
\* limit < init, or a negative step and limit > init, the body never runs;
\* with a step that is not 0 the loop ends.
C16_NumericFor ==
    /\ [](fPhase # "idle" /\ fStep = 0 => fPhase = "error")
    /\ [](fPhase # "idle" /\ ((fStep > 0 /\ fLimit < fInit) \/ (fStep < 0 /\ fLimit > fInit))
            => ~fRan)
    /\ (fPhase = "loop") ~> (fPhase = "done")

(***************************************************************************)
(* Claims about the JSON round trip.                                       *)
(***************************************************************************)
\* The structure of a value: its numbers, and per table the structures of
\* its array part and of its string keys.
RECURSIVE Structure(_, _)
Structure(heap, lv) ==
    IF lv.t # "table" THEN [t |-> lv.t, n |-> lv.n, array |-> <<>>, strdict |-> <<>>]
    ELSE [t |-> "table", n |-> 0,
          array |-> [i \in 1 .. Len(heap[lv.ref].array) |-> Structure(heap, heap[lv.ref].array[i])],
          strdict |-> [k \in {x \in JKeys : heap[lv.ref].strdict[x] # LVNil} |->
                         Structure(heap, heap[lv.ref].strdict[k])]]

\* C17: the table Decode returns for the text Encode made of t is
\* structurally equal to t.
C17_JsonRoundTrip ==
    jphase = "decoded" => Structure(jheap, jres) = Structure(jheap, jt)

(***************************************************************************)
(* Claims about Pack and Unpack.                                           *)
(***************************************************************************)
\* C18: Unpack(Pack(v1, ..., vk)) returns exactly k values, v1 .. vk in
\* order.
C18_UnpackOfPack ==
    pkPhase = "unpacked" => pkOut = pkArgs

(***************************************************************************)
(* Claims about ToNumber and ToString.                                     *)
(***************************************************************************)
\* C19: ToNumber(ToString(n)) returns n.
C19_ToNumberOfToString ==
    tnPhase = "number" => tnRes = TnRet(TRUE, tnNum)

(***************************************************************************)
(* Claim C20: string.find.                                                 *)
(***************************************************************************)

\* The bytes o+1 .. e of s are a match of the pattern p from item k on:
\* every atom takes as many bytes as its quantifier allows, "$" as the last
\* item asks for the end of s.
RECURSIVE Accepts(_, _, _, _, _)
Accepts(p, k, s, o, e) ==
    IF k > Len(p) THEN o = e
    ELSE IF p[k] = "$" /\ k = Len(p) THEN o = e /\ e = Len(s)
    ELSE IF Quantifier(p, k) = "?"
         THEN \/ Accepts(p, k + 2, s, o, e)
              \/ o < e /\ Single(p, k, s, o) /\ Accepts(p, k + 2, s, o + 1, e)
    ELSE IF Quantifier(p, k) \in {"*", "-"}
         THEN \/ Accepts(p, k + 2, s, o, e)
              \/ o < e /\ Single(p, k, s, o) /\ Accepts(p, k, s, o + 1, e)
    ELSE o < e /\ Single(p, k, s, o) /\ Accepts(p, k + 1, s, o + 1, e)

\* s[i..j] satisfies the pattern p; a pattern anchored with "^" is matched
\* at the start position only.
Satisfies(p, s, i, j, plain) ==
    IF plain \/ Len(p) = 0 THEN SubSeq(s, i, j) = p
    ELSE Accepts(p, IF Anchored(p) THEN 2 ELSE 1, s, i - 1, j)

\* C20: a call of string.find either returns nil or returns offsets (i, j)
\* with 1 <= i <= j + 1 <= len(s) + 1 such that s[i..j] satisfies the pattern
\* (equals it in plain mode); no call indexes s outside its bytes.
C20_FindContract ==
    fndPhase = "done" =>
        \/ fndOut.kind = "nil"
        \/ /\ fndOut.kind = "match"
           /\ 1 <= fndOut.i
           /\ fndOut.i <= fndOut.j + 1
           /\ fndOut.j + 1 <= Len(fndStr) + 1
           /\ Satisfies(fndPattern, fndStr, fndOut.i, fndOut.j, fndPlain)

(***************************************************************************)
(* Claim C21: string.gsub.                                                 *)
(***************************************************************************)

\* What match k is to be replaced by: the expanded replacement string, the
\* table's value for the matched text or the function's result; the matched
\* text itself when that value is nil or false.
GsReplacement(k) ==
    LET text == SubSeq(gsStr, gsMds[k][1] + 1, gsMds[k][2])
        ExpandItem(item) == IF item = "%0" THEN text ELSE <<item>>
        Expand[n \in 0 .. MaxGsLen + 1] ==
            IF n = 0 THEN <<>> ELSE Expand[n - 1] \o ExpandItem(gsRepl.s[n])
        value == IF gsRepl.kind = "table" THEN gsRepl.tbl[text] ELSE gsRets[k]
    IN  IF gsRepl.kind = "string" THEN Expand[Len(gsRepl.s)]
        ELSE IF value.t \in {"nil", "false"} THEN text
        ELSE value.s

\* The subject from byte offset pos on, with the matches k, k + 1, ... replaced.
RECURSIVE GsExpected(_, _)
GsExpected(pos, k) ==
    IF k > Len(gsMds) THEN SubSeq(gsStr, pos + 1, Len(gsStr))
    ELSE SubSeq(gsStr, pos + 1, gsMds[k][1]) \o GsReplacement(k)
         \o GsExpected(gsMds[k][2], k + 1)

\* C21: the string gsub returns is the subject with every matched span
\* replaced, from left to right, by its replacement (a match whose table
\* value or function result is nil or false is kept), and with the bytes
\* outside the matched spans unchanged and in order.
C21_GsubReplacesMatches ==
    gsPhase = "done" => gsOut = GsExpected(0, 1)

\* A call with a function that replaced a match by a longer string, kept a
\* later match and so shifted the bytes after it.
C21_Witness ==
    /\ gsPhase = "done"
    /\ gsRepl.kind = "function"
    /\ Len(gsMds) >= 2
    /\ gsRets[1] = GsString(<<"x", "y">>)
    /\ LVIsFalse(gsRets[2])
    /\ gsMds[2][1] < gsMds[2][2]

(***************************************************************************)
(* Claim C22: instruction fields.                                          *)
(***************************************************************************)

\* C22: the fields of a created word read back as they were written (sBx
\* through Bx = sBx + 2^17 - 1), the word fits in 32 bits, and setting one
\* field of a word leaves its other fields unchanged.
C22_FieldsReadBack ==
    [][LET k == opLast'.kind
           x == opLast'.args
       IN  /\ inst' \in [0 .. 31 -> {0, 1}]
           /\ k = "ABC" =>
                <<opGetOpCode(inst'), opGetArgA(inst'), opGetArgB(inst'),
                  opGetArgC(inst')>> = x
           /\ k = "ABx" =>
                <<opGetOpCode(inst'), opGetArgA(inst'), opGetArgBx(inst')>> = x
           /\ k = "ASbx" =>
                /\ <<opGetOpCode(inst'), opGetArgA(inst'),
                     opGetArgSbx(inst')>> = x
                /\ opGetArgBx(inst') = x[3] + Pow2(17) - 1
           /\ k = "SetOpCode" =>
                /\ opGetOpCode(inst') = x[1]
                /\ opGetArgA(inst') = opGetArgA(inst)
                /\ opGetArgBx(inst') = opGetArgBx(inst)
           /\ k = "SetArgA" =>
                /\ opGetArgA(inst') = x[1]
                /\ opGetOpCode(inst') = opGetOpCode(inst)
                /\ opGetArgBx(inst') = opGetArgBx(inst)
           /\ k = "SetArgB" =>
                /\ opGetArgB(inst') = x[1]
                /\ opGetOpCode(inst') = opGetOpCode(inst)
                /\ opGetArgA(inst') = opGetArgA(inst)
                /\ opGetArgC(inst') = opGetArgC(inst)
           /\ k = "SetArgC" =>
                /\ opGetArgC(inst') = x[1]
                /\ opGetOpCode(inst') = opGetOpCode(inst)
                /\ opGetArgA(inst') = opGetArgA(inst)
                /\ opGetArgB(inst') = opGetArgB(inst)
           /\ k \in {"SetArgBx", "SetArgSbx"} =>
                /\ k = "SetArgBx" => opGetArgBx(inst') = x[1]
                /\ k = "SetArgSbx" => opGetArgSbx(inst') = x[1]
                /\ opGetOpCode(inst') = opGetOpCode(inst)
                /\ opGetArgA(inst') = opGetArgA(inst)]_opvars

\* A word whose fields are all non-zero had its C field set to its largest
\* value.
C22_Witness ==
    /\ opLast = OpDone("SetArgC", <<Pow2(opSizeC) - 1>>)
    /\ opGetOpCode(inst) > 0
    /\ opGetArgA(inst) > 0
    /\ opGetArgB(inst) > 0

(***************************************************************************)
(* Claim C23: tbllib.Clone.                                                *)
(***************************************************************************)

\* C23: after Clone, a write through one of the two tables leaves what the
\* other one holds as it was.
C23_CloneIsIndependent ==
    [][clNewtbl # 0 /\ clLast'.via # "none" =>
        LET other == IF clLast'.via = "tbl" THEN clNewtbl ELSE clTbl
        IN  clHeap'[other] = clHeap[other]]_clonevars

(***************************************************************************)
(* Claims C24 and C25: the scanner.                                        *)
(***************************************************************************)

\* The offset of the first "*/" that starts at or after offset p + 1, or 0.
RECURSIVE CommentEnd(_, _)
CommentEnd(input, p) ==
    IF p + 1 > Len(input) THEN 0
    ELSE IF input[p] = "*" /\ input[p + 1] = "/" THEN p
    ELSE CommentEnd(input, p + 1)

\* The text from position p on with every comment replaced by spaces: "//"
\* up to the end of the line, "/*" up to the next "*/".  A "/*" without a
\* "*/" leaves the marker "open" in the text.
RECURSIVE Blanked(_, _, _)
Blanked(input, p, inLine) ==
    IF p > Len(input) THEN <<>>
    ELSE IF inLine
    THEN IF input[p] = "\n" THEN <<"\n">> \o Blanked(input, p + 1, FALSE)
         ELSE <<" ">> \o Blanked(input, p + 1, TRUE)
    ELSE IF p < Len(input) /\ input[p] = "/" /\ input[p + 1] = "/"
    THEN <<" ", " ">> \o Blanked(input, p + 2, TRUE)
    ELSE IF p < Len(input) /\ input[p] = "/" /\ input[p + 1] = "*"
    THEN LET e == CommentEnd(input, p + 2)
         IN  IF e = 0 THEN <<"open">>
             ELSE [i \in 1 .. e + 2 - p |-> " "] \o Blanked(input, e + 2, FALSE)
    ELSE <<input[p]>> \o Blanked(input, p + 1, FALSE)

NoComments(input) == Blanked(input, 1, FALSE)
Terminated(input) == \A i \in 1 .. Len(NoComments(input)) : NoComments(input)[i] # "open"

\* The types and texts of all the tokens of a text, up to EOF or an error.
RECURSIVE TokensFrom(_, _)
TokensFrom(input, p) ==
    LET r == Scan(input, p)
    IN  IF r.err THEN <<"error">>
        ELSE IF r.tok.type = "EOF" THEN <<>>
        ELSE <<(<<r.tok.type, r.tok.str>>)>> \o TokensFrom(input, r.pos)

Returned ==
    [k \in 1 .. Len(lxTokens) |-> <<lxTokens[k].type, lxTokens[k].str>>]
    \o (IF lxPhase = "error" THEN <<"error">> ELSE <<>>)

\* C24: the tokens returned for a text are the tokens returned for the text
\* with each comment ("//" to the end of the line, "/*" to the next "*/")
\* replaced by whitespace; no token is made of comment text.
C24_CommentsAreSkipped ==
    lxPhase \in {"eof", "error"} /\ Terminated(lxInput) =>
        Returned = TokensFrom(NoComments(lxInput), 0)

\* The maximal runs of letters, digits and "_" of a text, as <<first, last>>.
IdentRune(ch) == ch = "_" \/ unicodeIsLetter(ch) \/ unicodeIsDigit(ch)
MaximalRuns(text) ==
    {r \in (1 .. Len(text)) \X (1 .. Len(text)) :
        /\ r[1] <= r[2]
        /\ \A i \in r[1] .. r[2] : IdentRune(text[i])
        /\ r[1] = 1 \/ ~IdentRune(text[r[1] - 1])
        /\ r[2] = Len(text) \/ ~IdentRune(text[r[2] + 1])}

\* C25: every maximal run of letters, digits and "_" outside the comments
\* that does not start with a digit is one token, whose text is the run and
\* whose type is TIdent or the type of the reserved word.
C25_IdentifierRuns ==
    lxPhase = "eof" /\ Terminated(lxInput) =>
        \A r \in MaximalRuns(NoComments(lxInput)) :
            ~unicodeIsDigit(lxInput[r[1]]) =>
                \E k \in 1 .. Len(lxTokens) :
                    /\ lxTokens[k].at = r[1] - 1
                    /\ lxTokens[k].str = SubSeq(lxInput, r[1], r[2])
                    /\ lxTokens[k].type =
                          IF lxTokens[k].str = <<"i", "f">> THEN "TIf"
                          ELSE "TIdent"

(***************************************************************************)
(* C26 - the parent pointer of a thread.                                   *)
(***************************************************************************)
\* A thread that is neither dead nor executing nor waiting in a coResume of
\* its own: it was created and not started, or it is paused after a yield.
Suspended(th) ==
    /\ ~Dead[th]
    /\ CurrentThread # th
    /\ pendingResume[th] = NoThread

\* A coResume of thread by handed control to thread th in this step.
HandedOver(by, th) ==
    /\ lastOp'.op \in {"Resume", "ReResume"}
    /\ lastOp'.by = by
    /\ lastOp'.th = th
    /\ CurrentThread = by
    /\ CurrentThread' = th
    /\ by # th

\* The current thread yielded, returned from its top frame or died from an
\* error no protected call caught, in this step.
GaveUp(th) ==
    /\ lastOp'.op \in {"Yield", "Return", "Unwind"}
    /\ lastOp'.by = th
    /\ CurrentThread = th

C26_ParentStep ==
    /\ \A by, th \in Threads : HandedOver(by, th) => Parent'[th] = by
    /\ \A th \in Threads : GaveUp(th) => Parent'[th] = NoThread

C26_NoParentAtRest ==
    \A th \in Created : (Dead[th] \/ Suspended(th)) => Parent[th] = NoThread

\* C26: after Resume(T) issued by thread P the parent pointer of T is P;
\* after T yields, returns from its top frame or dies from an uncaught error
\* the parent pointer of T is null; so a suspended or dead thread never has a
\* parent.
C26_ParentSetAtResumeClearedAtYield ==
    [][C26_ParentStep]_covars /\ []C26_NoParentAtRest

\* A coroutine that was resumed by the main thread, yielded to it and is now
\* suspended without a parent, while the main thread runs.
C26_Witness ==
    /\ lastOp.op = "Yield"
    /\ lastOp.th = MainThread
    /\ lastOp.by # MainThread
    /\ nres[lastOp.by] >= 1
    /\ Suspended(lastOp.by)
    /\ Parent[lastOp.by] = NoThread
    /\ CurrentThread = MainThread

(***************************************************************************)
(* C27 - Require loads a module at most once.                              *)
(***************************************************************************)
\* The Require(name) call of this step.
Requires(name) ==
    /\ rqRaised = ReqNoErr
    /\ rqLast'.name = name
    /\ rqLast'.op \in {"Require", "Load"}

\* The module of name is still loading: its module function has not left.
Loading(name) == \E i \in 1 .. Len(rqStack) : rqStack[i] = name

C27_RequireStep ==
    \A name \in ReqNames :
      Requires(name) =>
        /\ rqCalls'[name] <= 1
        /\ rqFirst[name] # "none" =>
             /\ rqLast'.op = "Require"
             /\ rqLast'.result = rqFirst[name]
             /\ rqCalls' = rqCalls
        /\ Loading(name) =>
             /\ rqLast'.op = "Require"
             /\ rqLast'.result = MsgLoop
             /\ rqRaised' = MsgLoop
             /\ rqCalls' = rqCalls

\* C27: Require(name) runs the loader function of a module at most once:
\* after a load that completed without error every later Require(name)
\* returns the same cached value without calling any loader, and a
\* Require(name) issued while that module is still loading raises 'loop or
\* previous error loading module' instead of loading it again.
C27_RequireLoadsOnce == [][C27_RequireStep]_reqvars

(***************************************************************************)
(* C28 - the iterator of GMatch.                                           *)
(***************************************************************************)
\* The matches start at increasing offsets of the subject.
InSubjectOrder(matches) ==
    \A k \in 1 .. Len(matches) - 1 : matches[k][1] < matches[k + 1][1]

C28_IterStep ==
    gmPos' = gmPos + 1 =>
      /\ InSubjectOrder(gmMatches)
      /\ IF gmPos < Len(gmMatches)
           THEN gmOut' = GmValues(<<GmCapture(gmStr, gmMatches[gmPos + 1], 0)>>)
           ELSE gmOut' = GmNothing

\* C28: the GMatch iterator returns the matches of the pattern in subject
\* order, one per call, and every call made after the last match has been
\* returned yields no values, however many times the iterator is called: it
\* never fails and never reads past the end of the match list.
C28_IteratorEndsQuietly == [][C28_IterStep]_gmvars

(***************************************************************************)
(* C29 - the tables goToLValue returns and tablePool.                      *)
(***************************************************************************)
\* The tables a script reaches from a value.
RECURSIVE ReachableTables(_, _)
ReachableTables(heap, lv) ==
    IF lv.t # "table" THEN {}
    ELSE {lv.ref}
           \cup UNION {ReachableTables(heap, heap[lv.ref].array[i]) :
                          i \in 1 .. Len(heap[lv.ref].array)}
           \cup UNION {ReachableTables(heap, heap[lv.ref].strdict[k]) : k \in JKeys}

\* The tables tablePool.Get may return.
Pooled == {jpool[i] : i \in 1 .. Len(jpool)}

\* The tables that hold the elements and members of the decoded value.
DecodedChildren ==
    LET tb == jheap[jres.ref]
        vals == [i \in 1 .. Len(tb.array) |-> tb.array[i]]
                  \o [i \in 1 .. Len(JKeyOrder) |-> tb.strdict[JKeyOrder[i]]]
    IN SelectSeq(vals, LAMBDA lv : lv.t = "table")

\* C29: a table that goToLValue returned for a decoded array is never
\* afterwards cleared or refilled by another conversion: no table is at the
\* same time reachable from a value handed to the script and available in
\* tablePool, and the distinct arrays of one decoded value are distinct
\* tables.
C29_ReturnedTablesLeaveThePool ==
    jphase = "decoded" =>
      /\ ReachableTables(jheap, jres) \cap Pooled = {}
      /\ \A i, j \in 1 .. Len(DecodedChildren) :
            i # j => DecodedChildren[i].ref # DecodedChildren[j].ref

(***************************************************************************)
(* C30 - the default time unit.                                            *)
(***************************************************************************)
\* The last call reported 'invalid time unit', as a value or as an error.
ReportsInvalidUnit(call) ==
    \E i \in 1 .. Len(call.out.vals) : call.out.vals[i] = MsgInvalidUnit

C30_SetDefaultUnitStep ==
    tmLast'.fn = "SetDefaultUnit" /\ tmLast'.arg \notin DOMAIN timeUnit \cup {Omitted} =>
      /\ ReportsInvalidUnit(tmLast')
      /\ defaultTimeUnit' = defaultTimeUnit

\* C30: after any sequence of timelib, httplib and wslib calls the default
\* time unit is one of the supported units h, m, s, ms: SetDefaultUnit with
\* an unsupported unit reports an error and leaves the default unit
\* unchanged, so a later call that omits the unit never fails with 'invalid
\* time unit'.
C30_DefaultUnitStaysSupported ==
    /\ [](defaultTimeUnit \in DOMAIN timeUnit)
    /\ [][C30_SetDefaultUnitStep]_timevars
    /\ [](tmLast.arg = Omitted => ~ReportsInvalidUnit(tmLast))

====
